---- MODULE Spec2Model ----
(***************************************************************************)
(* State-machine model of the React front end of ai-assistant-docs: App,   *)
(* DocumentsList, ChatInterface and UploadZone, the requests they have in  *)
(* flight, and the backend state those requests read and write.            *)
(*                                                                         *)
(* A component's useState cells are variables.  An event handler or the    *)
(* continuation of an awaited request is one action; the effects a render  *)
(* triggers (mount, dependency change) are part of the action that caused  *)
(* the render.  A request in flight is a record that carries the values    *)
(* its continuation closed over when the handler started.                  *)
(*                                                                         *)
(* The functions of the API client and of the backend core (payload of     *)
(* sendMessage, Vector Index search, Chunker) are operators, each applied  *)
(* by an action to arguments its specification draws at Init; ingestion    *)
(* and retrieval are modelled entry by entry in a specification of their   *)
(* own.                                                                    *)
(***************************************************************************)
EXTENDS Integers, Sequences, FiniteSets, Bags, TLC

\* ---------------------------------------------------------------- bounds
NumDocs == 1
MaxQuestions == 2
MaxPending == 1
MaxPolls == 2
MaxUploads == 2
MaxChunks == 3
MaxScore == 2
MaxCalls == 2
MaxText == 4
MaxChunkSize == 3
MaxQueries == 5
MaxLoads == 2
MaxDeletes == 2

Docs == 1..NumDocs

VARIABLES
    \* backend
    srvDocs, srvHistory,
    \* App
    currentView, selectedDocument, refreshTrigger,
    \* DocumentsList
    documents, listLoading, listError, deleteDialog, deleting,
    hasProcessingDocs, listReqs, delReqs,
    \* DocumentsList: the search field, the auto-refresh switch, the ref that
    \* holds the interval, the intervals that are set (each with the searchTerm
    \* its callback closes over), the requests of refreshSingleDocument
    searchTerm, autoRefresh, autoRefreshInterval, timers, refreshReqs,
    \* ChatInterface
    messages, inputValue, loading, error, showDeleteDialog, clock,
    histReqs, sendReqs, clearReqs,
    \* UploadZone, and the console onUploadStart and App.handleUploadComplete
    \* log to
    uploading, uploadResult, uploadError, processingStatus, pollingActive,
    uploadReqs, statusReqs, console,
    \* history variable: the clock when the mounted ChatInterface last emptied
    \* its list after a successful reset, -1 if it never did
    lastReset,
    \* backend: the entries written to the Vector Index of each document, and
    \* the queries the Retriever was given, each with what it has seen
    srvIndex, srvQueries,
    \* the call of a function of the API or of the backend that is looked at on
    \* its own: its arguments, and what it returned once it has run
    input, output

srvVars  == <<srvDocs, srvHistory>>
appVars  == <<currentView, selectedDocument, refreshTrigger>>
listVars == <<searchTerm, autoRefresh, autoRefreshInterval, timers, refreshReqs>>
docsVars == <<documents, listLoading, listError, deleteDialog, deleting,
              hasProcessingDocs, listReqs, delReqs, listVars>>
chatVars == <<messages, inputValue, loading, error, showDeleteDialog, clock,
              histReqs, sendReqs, clearReqs, lastReset>>
upVars   == <<uploading, uploadResult, uploadError, processingStatus, pollingActive,
              uploadReqs, statusReqs, console>>
coreVars == <<srvIndex, srvQueries>>
pureVars == <<input, output>>
vars == <<srvVars, appVars, docsVars, chatVars, upVars, coreVars, pureVars>>

\* ------------------------------------------------------------- constants
NullDoc == [id |-> 0, processing_complete |-> FALSE, chunk_count |-> 0, failed |-> FALSE]
NoError == "null"
ClosedDialog == [open |-> FALSE, documentId |-> 0]
NoCall == <<>>

\* ----------------------------------------------------------------- backend
\* The document record the backend returns for document d.
DocView(d) ==
    [id |-> d,
     processing_complete |-> (srvDocs[d].st = "Indexed"),
     chunk_count |-> srvDocs[d].chunk_count,
     failed |-> (srvDocs[d].st = "Failed")]

\* The number of chunks the Chunker cuts document d into.
ChunksOf(d) == d

Stored(d) == srvDocs[d].st \in {"Processing", "Indexed", "Failed"}

\* Ingestion of one document: Processing -> Indexed, or -> Failed.
IngestStep(d) ==
    /\ srvDocs[d].st = "Processing"
    /\ \/ /\ srvDocs' = [srvDocs EXCEPT ![d] = [st |-> "Indexed", chunk_count |-> ChunksOf(d)]]
          /\ srvIndex' = [srvIndex EXCEPT ![d] = ChunksOf(d)]
       \/ /\ srvDocs' = [srvDocs EXCEPT ![d].st = "Failed"]
          /\ UNCHANGED srvIndex
    /\ UNCHANGED <<srvHistory, appVars, docsVars, chatVars>>
    /\ UNCHANGED upVars
    /\ UNCHANGED <<srvQueries, pureVars>>

\* ------------------------------------------------------------------- mount
DocsMounted(v) == v = "documents"
ChatMounted(v, s) == v = "chat" /\ s # NullDoc

BagAdd(B, e) == B (+) SetToBag({e})
BagDel(B, e) == B (-) SetToBag({e})

\* A call of documentsAPI.getDocuments(1, 50, search) up to its answer.
ListReq(showLoading, search) ==
    [phase |-> "sent", snap |-> {}, showLoading |-> showLoading, search |-> search]

\* The first load of a DocumentsList: searchTerm is still ''.
NewListReq(showLoading) == ListReq(showLoading, "")

NullTimer == "null"

\* The interval effect without its cleanup and without its else branch.
AutoRefreshEffect_NeverClears(ar, hp, st) ==
    IF ar = autoRefresh /\ hp = hasProcessingDocs
    THEN UNCHANGED <<autoRefreshInterval, timers>>
    ELSE IF ar /\ hp
         THEN /\ timers' = BagAdd(timers, st)
              /\ autoRefreshInterval' = st
         ELSE UNCHANGED <<autoRefreshInterval, timers>>

\* The effect on [autoRefresh, hasProcessingDocs], run for the values ar and hp
\* of a render whose searchTerm is st: the cleanup of the previous run, then
\* the body.  It runs only when one of the two changed.
AutoRefreshEffect(ar, hp, st) ==
    IF ar = autoRefresh /\ hp = hasProcessingDocs
    THEN UNCHANGED <<autoRefreshInterval, timers>>
    ELSE LET cleaned == IF autoRefreshInterval # NullTimer
                        THEN BagDel(timers, autoRefreshInterval) ELSE timers
         IN  IF ar /\ hp
             THEN /\ timers' = BagAdd(cleaned, st)
                  /\ autoRefreshInterval' = st
             ELSE /\ timers' = cleaned
                  /\ autoRefreshInterval' = NullTimer

\* DocumentsList: useState initial values, then the effect that loads the list.
DocsMount ==
    /\ documents' = {}
    /\ listLoading' = TRUE
    /\ listError' = NoError
    /\ deleteDialog' = ClosedDialog
    /\ deleting' = 0
    /\ hasProcessingDocs' = FALSE
    /\ listReqs' = {NewListReq(TRUE)}
    /\ searchTerm' = ""
    /\ autoRefresh' = TRUE
    /\ autoRefreshInterval' = NullTimer
    /\ timers' = timers
    /\ refreshReqs' = {}

\* DocumentsList leaves the tree: its state is gone, the continuations of its
\* requests still run but their setState calls have no effect.
DocsUnmount ==
    /\ documents' = {}
    /\ listLoading' = FALSE
    /\ listError' = NoError
    /\ deleteDialog' = ClosedDialog
    /\ deleting' = 0
    /\ hasProcessingDocs' = FALSE
    /\ listReqs' = {}
    /\ searchTerm' = ""
    /\ autoRefresh' = TRUE
    \* the cleanup of the interval effect and the cleanup on unmount
    /\ timers' = (IF autoRefreshInterval # NullTimer
                  THEN BagDel(timers, autoRefreshInterval) ELSE timers)
    /\ autoRefreshInterval' = NullTimer
    /\ refreshReqs' = {}
    /\ delReqs' = {[r EXCEPT !.alive = FALSE, !.capDocs = {}] :
                       r \in {q \in delReqs : q.phase # "fail"}}

NewHistReq(d) == [doc |-> d, phase |-> "sent", snap |-> <<>>]

\* Requests of an unmounted ChatInterface: a write still reaches the backend,
\* everything else has no effect any more.
Orphans(reqs) == {[r EXCEPT !.alive = FALSE] : r \in {q \in reqs : q.phase = "sent"}}

ChatMount(d) ==
    /\ messages' = <<>>
    /\ inputValue' = ""
    /\ loading' = FALSE
    /\ error' = NoError
    /\ showDeleteDialog' = FALSE
    /\ histReqs' = {NewHistReq(d)}
    /\ UNCHANGED <<clock, sendReqs, clearReqs, lastReset>>

ChatUnmount ==
    /\ messages' = <<>>
    /\ inputValue' = ""
    /\ loading' = FALSE
    /\ error' = NoError
    /\ showDeleteDialog' = FALSE
    /\ histReqs' = {}
    /\ sendReqs' = Orphans(sendReqs)
    /\ clearReqs' = Orphans(clearReqs)
    /\ lastReset' = -1
    /\ UNCHANGED clock

\* UploadZone is rendered next to DocumentsList.
UpMounted(v) == v = "documents"


\* The requests K of B, those that still have an effect once their UploadZone
\* is gone, as requests of an unmounted component.
Orphaned(B, K) ==
    LET Live(e) == [e EXCEPT !.alive = TRUE]
        Count(x) == IF x \in K THEN B[x] ELSE 0
    IN  [e \in {[x EXCEPT !.alive = FALSE] : x \in K} |-> Count(e) + Count(Live(e))]

\* The condition of the polling effect.
PollingOn == pollingActive /\ uploadResult # NullDoc

\* checkStatus up to its await; it closes over the uploadResult of its render.
checkStatus ==
    [uploadResult |-> uploadResult, phase |-> "sent", status |-> NullDoc, alive |-> TRUE]

\* App rendered again without changing the view: UploadZone gets a new
\* onUploadComplete, so the polling effect is cleaned up and runs again.
PollingEffectOn(B) ==
    IF UpMounted(currentView) /\ PollingOn THEN BagAdd(B, checkStatus) ELSE B

PollingEffect == statusReqs' = PollingEffectOn(statusReqs)

UploadMount ==
    /\ uploading' = FALSE
    /\ uploadResult' = NullDoc
    /\ uploadError' = NoError
    /\ processingStatus' = NullDoc
    /\ pollingActive' = FALSE
    /\ UNCHANGED <<uploadReqs, statusReqs, console>>

\* UploadZone leaves the tree: the interval is cleared, the continuations of
\* its requests still run and still call onUploadComplete.
UploadUnmount ==
    /\ uploading' = FALSE
    /\ uploadResult' = NullDoc
    /\ uploadError' = NoError
    /\ processingStatus' = NullDoc
    /\ pollingActive' = FALSE
    /\ uploadReqs' = Orphaned(uploadReqs, {r \in DOMAIN uploadReqs : r.phase # "fail"})
    /\ statusReqs' = Orphaned(statusReqs,
                         {r \in DOMAIN statusReqs :
                              \/ r.phase = "sent"
                              \/ r.phase = "ok" /\ r.status.processing_complete})
    /\ UNCHANGED console

\* What a render of App with view v does to UploadZone.
NavUpload(v) ==
    IF UpMounted(currentView) /\ ~UpMounted(v) THEN UploadUnmount
    ELSE IF ~UpMounted(currentView) /\ UpMounted(v) THEN UploadMount
    ELSE UNCHANGED upVars

\* What a render of App with (v, s) does to ChatInterface.
NavChat(v, s) ==
    IF ChatMounted(currentView, selectedDocument) /\ ~ChatMounted(v, s) THEN ChatUnmount
    ELSE IF ~ChatMounted(currentView, selectedDocument) /\ ChatMounted(v, s) THEN ChatMount(s.id)
    ELSE UNCHANGED chatVars

\* What a render of App with view v does to DocumentsList.
NavDocs(v) ==
    IF DocsMounted(currentView) /\ ~DocsMounted(v) THEN DocsUnmount
    ELSE IF ~DocsMounted(currentView) /\ DocsMounted(v) THEN DocsMount /\ UNCHANGED delReqs
    ELSE UNCHANGED docsVars

Navigate(v, s) ==
    /\ currentView' = v
    /\ selectedDocument' = s
    /\ NavChat(v, s)
    /\ NavDocs(v)
    /\ NavUpload(v)

\* --------------------------------------------------------------------- App
\* handleViewChange without its check of the selection.
handleViewChange_NoGuard(view) ==
    /\ currentView' = view
    /\ UNCHANGED <<selectedDocument, refreshTrigger, srvVars>>
    /\ UNCHANGED <<docsVars, chatVars, upVars>>
    /\ UNCHANGED <<coreVars, pureVars>>

handleViewChange(view) ==
    /\ IF view = "chat" /\ selectedDocument = NullDoc
       THEN Navigate("documents", selectedDocument)
       ELSE Navigate(view, selectedDocument)
    /\ UNCHANGED <<refreshTrigger, srvVars>>
    /\ UNCHANGED <<coreVars, pureVars>>

handleSelectDocument(document) ==
    /\ Navigate("chat", document)
    /\ UNCHANGED <<refreshTrigger, srvVars>>

handleBackFromChat ==
    /\ ChatMounted(currentView, selectedDocument)
    /\ Navigate("documents", selectedDocument)
    /\ UNCHANGED <<refreshTrigger, srvVars>>
    /\ UNCHANGED <<coreVars, pureVars>>

\* ----------------------------------------------------------- DocumentsList
\* Which of the three returns of the render is on screen.
ListScreen ==
    IF listLoading /\ documents = {} THEN "skeleton"
    ELSE IF listError # NoError THEN "error"
    ELSE "list"

checkProcessingDocs(docs) == \E doc \in docs : ~doc.processing_complete

\* loadDocuments up to its await.
loadDocuments(showLoading) ==
    /\ listLoading' = (IF showLoading THEN TRUE ELSE listLoading)
    /\ listError' = NoError
    /\ listReqs' = listReqs \cup {ListReq(showLoading, searchTerm)}

\* The "Aggiorna" button of the list and the "Riprova" button of the error alert.
ReloadClick ==
    /\ DocsMounted(currentView)
    /\ \/ ListScreen = "error"
       \/ ListScreen = "list" /\ ~listLoading /\ ~deleteDialog.open
    /\ loadDocuments(TRUE)
    /\ UNCHANGED <<documents, deleteDialog, deleting, hasProcessingDocs, listVars, delReqs>>
    /\ UNCHANGED <<srvVars, appVars, chatVars>>
    /\ UNCHANGED upVars
    /\ UNCHANGED <<coreVars, pureVars>>

\* The search terms typed into the search field; the filename of the first
\* document does not contain "x", the filenames of the others do.
Terms == {"", "x"}
Matches(d, search) == search = "" \/ d > 1

\* GET /documents answered by the backend.
ServeList(r) ==
    /\ r.phase = "sent"
    /\ \/ listReqs' = (listReqs \ {r}) \cup
              {[r EXCEPT !.phase = "ok",
                         !.snap = {DocView(d) : d \in {x \in DOMAIN srvDocs :
                                                        Stored(x) /\ Matches(x, r.search)}}]}
       \/ listReqs' = (listReqs \ {r}) \cup {[r EXCEPT !.phase = "fail"]}
    /\ UNCHANGED <<documents, listLoading, listError, deleteDialog, deleting,
                   hasProcessingDocs, listVars, delReqs>>
    /\ UNCHANGED <<srvVars, appVars, chatVars>>
    /\ UNCHANGED upVars
    /\ UNCHANGED <<coreVars, pureVars>>

\* loadDocuments after its await: try / catch / finally.
loadDocumentsDone(r) ==
    /\ r.phase # "sent"
    /\ listReqs' = listReqs \ {r}
    /\ IF r.phase = "ok"
       THEN /\ documents' = r.snap
            /\ hasProcessingDocs' = checkProcessingDocs(r.snap)
            /\ AutoRefreshEffect(autoRefresh, checkProcessingDocs(r.snap), searchTerm)
            /\ UNCHANGED <<searchTerm, autoRefresh, refreshReqs>>
            /\ listError' = listError
       ELSE /\ listError' = "load"
            /\ UNCHANGED <<documents, hasProcessingDocs, listVars>>
    /\ listLoading' = (IF r.showLoading THEN FALSE ELSE listLoading)
    /\ UNCHANGED <<deleteDialog, deleting, delReqs>>
    /\ UNCHANGED <<srvVars, appVars, chatVars>>
    /\ UNCHANGED upVars
    /\ UNCHANGED <<coreVars, pureVars>>

\* The delete icon of a card opens the confirmation dialog.
OpenDeleteDialog(d) ==
    /\ DocsMounted(currentView) /\ ListScreen = "list"
    /\ ~deleteDialog.open
    /\ \E doc \in documents : doc.id = d /\ Matches(d, searchTerm)
    /\ deleting # d
    /\ deleteDialog' = [open |-> TRUE, documentId |-> d]
    /\ UNCHANGED <<documents, listLoading, listError, deleting, hasProcessingDocs, listVars,
                   listReqs, delReqs>>
    /\ UNCHANGED <<srvVars, appVars, chatVars>>
    /\ UNCHANGED upVars
    /\ UNCHANGED <<coreVars, pureVars>>

\* "Annulla" or a click outside the dialog.
CloseDeleteDialog ==
    /\ DocsMounted(currentView) /\ ListScreen = "list"
    /\ deleteDialog.open
    /\ deleteDialog' = ClosedDialog
    /\ UNCHANGED <<documents, listLoading, listError, deleting, hasProcessingDocs, listVars,
                   listReqs, delReqs>>
    /\ UNCHANGED <<srvVars, appVars, chatVars>>
    /\ UNCHANGED upVars
    /\ UNCHANGED <<coreVars, pureVars>>

\* handleDelete behind a confirm button that is never disabled.
handleDelete_NoGuard(documentId) ==
    /\ DocsMounted(currentView) /\ ListScreen = "list"
    /\ deleteDialog.open /\ deleteDialog.documentId = documentId
    /\ Cardinality(delReqs) < MaxDeletes
    /\ deleting' = documentId
    /\ delReqs' = delReqs \cup
          {[doc |-> documentId, phase |-> "sent", capDocs |-> documents,
            capSel |-> selectedDocument, alive |-> TRUE]}
    /\ UNCHANGED <<documents, listLoading, listError, deleteDialog,
                   hasProcessingDocs, listVars, listReqs>>
    /\ UNCHANGED <<srvVars, appVars, chatVars>>
    /\ UNCHANGED upVars
    /\ UNCHANGED <<coreVars, pureVars>>

\* handleDelete up to its await.  The continuation closes over the documents
\* of this render and over the onDeleteDocument prop, that is over the
\* selectedDocument of the App render that created it.
handleDelete(documentId) ==
    /\ DocsMounted(currentView) /\ ListScreen = "list"
    /\ deleteDialog.open /\ deleteDialog.documentId = documentId
    /\ deleting = 0
    /\ Cardinality(delReqs) < MaxDeletes
    /\ deleting' = documentId
    /\ delReqs' = delReqs \cup
          {[doc |-> documentId, phase |-> "sent", capDocs |-> documents,
            capSel |-> selectedDocument, alive |-> TRUE]}
    /\ UNCHANGED <<documents, listLoading, listError, deleteDialog,
                   hasProcessingDocs, listVars, listReqs>>
    /\ UNCHANGED <<srvVars, appVars, chatVars>>
    /\ UNCHANGED upVars
    /\ UNCHANGED <<coreVars, pureVars>>

\* DELETE /upload/{id} answered by the backend; the delete cascades to the
\* document's conversation turns.
ServeDelete(r) ==
    /\ r.phase = "sent"
    /\ \/ /\ Stored(r.doc)
          /\ srvDocs' = [srvDocs EXCEPT ![r.doc] = [st |-> "Deleted", chunk_count |-> 0]]
          /\ srvHistory' = [srvHistory EXCEPT ![r.doc] = <<>>]
          /\ srvIndex' = [srvIndex EXCEPT ![r.doc] = 0]
          /\ delReqs' = (delReqs \ {r}) \cup {[r EXCEPT !.phase = "ok"]}
       \/ /\ delReqs' = (delReqs \ {r}) \cup
                (IF r.alive THEN {[r EXCEPT !.phase = "fail"]} ELSE {})
          /\ UNCHANGED <<srvVars, srvIndex>>
    /\ UNCHANGED <<documents, listLoading, listError, deleteDialog, deleting,
                   hasProcessingDocs, listVars, listReqs>>
    /\ UNCHANGED <<appVars, chatVars>>
    /\ UNCHANGED upVars
    /\ UNCHANGED <<srvQueries, pureVars>>

\* App.handleDeleteDocument as the closure r holds it.
DeletedIsSelected(r) == r.capSel # NullDoc /\ r.capSel.id = r.doc

\* handleDelete after its await, request succeeded.
handleDeleteOk(r) ==
    /\ r.phase = "ok"
    /\ refreshTrigger' = refreshTrigger + 1
    /\ IF r.alive
       THEN \* DocumentsList is on screen: the view stays "documents"
            /\ documents' = {doc \in r.capDocs : doc.id # r.doc}
            /\ hasProcessingDocs' = checkProcessingDocs({doc \in r.capDocs : doc.id # r.doc})
            /\ AutoRefreshEffect(autoRefresh,
                                 checkProcessingDocs({doc \in r.capDocs : doc.id # r.doc}),
                                 searchTerm)
            /\ UNCHANGED <<searchTerm, autoRefresh, refreshReqs>>
            /\ deleteDialog' = ClosedDialog
            /\ deleting' = 0
            /\ delReqs' = delReqs \ {r}
            /\ selectedDocument' = (IF DeletedIsSelected(r) THEN NullDoc ELSE selectedDocument)
            /\ currentView' = (IF DeletedIsSelected(r) THEN "documents" ELSE currentView)
            \* refreshTrigger changed: the effect reloads the list
            /\ listLoading' = TRUE
            /\ listError' = NoError
            /\ listReqs' = listReqs \cup {ListReq(TRUE, searchTerm)}
            /\ UNCHANGED chatVars
            /\ PollingEffect
            /\ UNCHANGED <<uploading, uploadResult, uploadError, processingStatus,
                           pollingActive, uploadReqs, console>>
       ELSE \* DocumentsList was unmounted: only App's state is written
            /\ IF DeletedIsSelected(r)
               THEN /\ currentView' = "documents"
                    /\ selectedDocument' = NullDoc
                    /\ NavChat("documents", NullDoc)
                    /\ IF DocsMounted(currentView)
                       THEN /\ loadDocuments(TRUE)
                            /\ delReqs' = delReqs \ {r}
                            /\ UNCHANGED <<documents, deleteDialog, deleting, hasProcessingDocs, listVars>>
                            /\ PollingEffect
                            /\ UNCHANGED <<uploading, uploadResult, uploadError, processingStatus,
                                           pollingActive, uploadReqs, console>>
                       ELSE /\ DocsMount
                            /\ delReqs' = delReqs \ {r}
                            /\ UploadMount
                ELSE /\ UNCHANGED <<currentView, selectedDocument, chatVars>>
                     /\ IF DocsMounted(currentView)
                        THEN /\ loadDocuments(TRUE)
                             /\ delReqs' = delReqs \ {r}
                             /\ UNCHANGED <<documents, deleteDialog, deleting, hasProcessingDocs, listVars>>
                             /\ PollingEffect
                             /\ UNCHANGED <<uploading, uploadResult, uploadError, processingStatus,
                                            pollingActive, uploadReqs, console>>
                        ELSE /\ delReqs' = delReqs \ {r}
                             /\ UNCHANGED <<documents, listLoading, listError, deleteDialog,
                                            deleting, hasProcessingDocs, listVars, listReqs>>
                             /\ UNCHANGED upVars
    /\ UNCHANGED srvVars
    /\ UNCHANGED <<coreVars, pureVars>>

\* handleDelete whose catch also closes the dialog and drops the entry.
handleDeleteFail_AsSuccess(r) ==
    /\ r.phase = "fail"
    /\ delReqs' = delReqs \ {r}
    /\ IF r.alive
       THEN /\ listError' = "delete"
            /\ deleting' = 0
            /\ documents' = {doc \in documents : doc.id # r.doc}
            /\ deleteDialog' = ClosedDialog
       ELSE UNCHANGED <<listError, deleting, documents, deleteDialog>>
    /\ UNCHANGED <<listLoading, hasProcessingDocs, listVars, listReqs>>
    /\ UNCHANGED <<srvVars, appVars, chatVars>>
    /\ UNCHANGED upVars
    /\ UNCHANGED <<coreVars, pureVars>>

\* handleDelete after its await, request failed.
handleDeleteFail(r) ==
    /\ r.phase = "fail"
    /\ delReqs' = delReqs \ {r}
    /\ IF r.alive
       THEN /\ listError' = "delete"
            /\ deleting' = 0
       ELSE UNCHANGED <<listError, deleting>>
    /\ UNCHANGED <<documents, listLoading, deleteDialog, hasProcessingDocs, listVars, listReqs>>
    /\ UNCHANGED <<srvVars, appVars, chatVars>>
    /\ UNCHANGED upVars
    /\ UNCHANGED <<coreVars, pureVars>>

\* The search field: setSearchTerm, then the effect on [searchTerm,
\* refreshTrigger] loads the list for the new term.  The interval effect does
\* not depend on searchTerm and does not run.
setSearchTerm(value) ==
    /\ DocsMounted(currentView) /\ ListScreen = "list"
    /\ ~deleteDialog.open
    /\ value # searchTerm
    /\ Cardinality(listReqs) < MaxLoads
    /\ searchTerm' = value
    /\ listLoading' = TRUE
    /\ listError' = NoError
    /\ listReqs' = listReqs \cup {ListReq(TRUE, value)}
    /\ UNCHANGED <<documents, deleteDialog, deleting, hasProcessingDocs, delReqs>>
    /\ UNCHANGED <<autoRefresh, autoRefreshInterval, timers, refreshReqs>>
    /\ UNCHANGED <<srvVars, appVars, chatVars>>
    /\ UNCHANGED upVars
    /\ UNCHANGED <<coreVars, pureVars>>

\* The auto-refresh button, rendered while hasProcessingDocs.
toggleAutoRefresh ==
    /\ DocsMounted(currentView) /\ ListScreen = "list"
    /\ ~deleteDialog.open
    /\ hasProcessingDocs
    /\ autoRefresh' = ~autoRefresh
    /\ AutoRefreshEffect(~autoRefresh, hasProcessingDocs, searchTerm)
    /\ UNCHANGED <<documents, listLoading, listError, deleteDialog, deleting,
                   hasProcessingDocs, listReqs, delReqs>>
    /\ UNCHANGED <<searchTerm, refreshReqs>>
    /\ UNCHANGED <<srvVars, appVars, chatVars>>
    /\ UNCHANGED upVars
    /\ UNCHANGED <<coreVars, pureVars>>

\* An interval fires: loadDocuments(false) of the render in which the
\* interval was set, with the searchTerm of that render.
TimerTick(t) ==
    /\ DocsMounted(currentView)
    /\ BagIn(t, timers)
    /\ Cardinality(listReqs) < MaxLoads
    /\ listError' = NoError
    /\ listReqs' = listReqs \cup {ListReq(FALSE, t)}
    /\ UNCHANGED <<documents, listLoading, deleteDialog, deleting, hasProcessingDocs,
                   listVars, delReqs>>
    /\ UNCHANGED <<srvVars, appVars, chatVars>>
    /\ UNCHANGED upVars
    /\ UNCHANGED <<coreVars, pureVars>>

\* refreshSingleDocument up to its await: the button of a card whose document
\* is still processing.
refreshSingleDocument(documentId) ==
    /\ DocsMounted(currentView) /\ ListScreen = "list"
    /\ ~deleteDialog.open
    /\ \E doc \in documents :
          doc.id = documentId /\ ~doc.processing_complete /\ Matches(documentId, searchTerm)
    /\ refreshReqs' = refreshReqs \cup {[doc |-> documentId, phase |-> "sent", status |-> NullDoc]}
    /\ UNCHANGED <<documents, listLoading, listError, deleteDialog, deleting,
                   hasProcessingDocs, listReqs, delReqs>>
    /\ UNCHANGED <<searchTerm, autoRefresh, autoRefreshInterval, timers>>
    /\ UNCHANGED <<srvVars, appVars, chatVars>>
    /\ UNCHANGED upVars
    /\ UNCHANGED <<coreVars, pureVars>>

\* GET /upload/status/{id} answered by the backend for refreshSingleDocument.
ServeRefresh(r) ==
    /\ r.phase = "sent"
    /\ \/ /\ Stored(r.doc)
          /\ refreshReqs' = (refreshReqs \ {r}) \cup
                {[r EXCEPT !.phase = "ok", !.status = DocView(r.doc)]}
       \/ refreshReqs' = (refreshReqs \ {r}) \cup {[r EXCEPT !.phase = "fail"]}
    /\ UNCHANGED <<documents, listLoading, listError, deleteDialog, deleting,
                   hasProcessingDocs, listReqs, delReqs>>
    /\ UNCHANGED <<searchTerm, autoRefresh, autoRefreshInterval, timers>>
    /\ UNCHANGED <<srvVars, appVars, chatVars>>
    /\ UNCHANGED upVars
    /\ UNCHANGED <<coreVars, pureVars>>

\* The entry of one document after refreshSingleDocument merged the status.
Refreshed(doc, status) ==
    [doc EXCEPT !.processing_complete = status.processing_complete,
                !.chunk_count = IF status.chunk_count # 0 THEN status.chunk_count
                                ELSE doc.chunk_count]

\* refreshSingleDocument after its await: the list is mapped from its latest
\* value; the catch only logs.
refreshSingleDocumentDone(r) ==
    /\ r.phase # "sent"
    /\ refreshReqs' = refreshReqs \ {r}
    /\ documents' = IF r.phase = "ok"
                    THEN {IF doc.id = r.doc THEN Refreshed(doc, r.status) ELSE doc :
                              doc \in documents}
                    ELSE documents
    /\ UNCHANGED <<listLoading, listError, deleteDialog, deleting, hasProcessingDocs,
                   listReqs, delReqs>>
    /\ UNCHANGED <<searchTerm, autoRefresh, autoRefreshInterval, timers>>
    /\ UNCHANGED <<srvVars, appVars, chatVars>>
    /\ UNCHANGED upVars
    /\ UNCHANGED <<coreVars, pureVars>>

\* handleSelectForChat without its processing_complete test.
handleSelectForChat_NoGuard(document) ==
    /\ DocsMounted(currentView) /\ ListScreen = "list"
    /\ ~deleteDialog.open
    /\ document \in documents /\ Matches(document.id, searchTerm)
    /\ handleSelectDocument(document)
    /\ UNCHANGED <<coreVars, pureVars>>

\* The "Chat" button of a card.
handleSelectForChat(document) ==
    /\ DocsMounted(currentView) /\ ListScreen = "list"
    /\ ~deleteDialog.open
    /\ document \in documents /\ Matches(document.id, searchTerm)
    /\ IF ~document.processing_complete
       THEN UNCHANGED vars
       ELSE handleSelectDocument(document)
    /\ UNCHANGED <<coreVars, pureVars>>

\* ----------------------------------------------------------- ChatInterface
NullAnswer == "null"
Inputs == {"", " ", " q "}

\* String.prototype.trim on the inputs above.
Trim(s) == IF s = " q " THEN "q" ELSE ""

\* Array.prototype.slice(0, -1)
SliceInit(s) == IF s = <<>> THEN <<>> ELSE SubSeq(s, 1, Len(s) - 1)

\* One entry of history.messages as the backend returns it.
TurnMessage(t) ==
    [question |-> "q", answer |-> "a", timestamp |-> t, isUser |-> FALSE]

RECURSIVE TurnMessages(_)
TurnMessages(h) ==
    IF h = <<>> THEN <<>> ELSE <<TurnMessage(Head(h))>> \o TurnMessages(Tail(h))

\* GET /chat/history/{id} answered by the backend.
ServeHistory(r) ==
    /\ r.phase = "sent"
    /\ \/ histReqs' = (histReqs \ {r}) \cup
              {[r EXCEPT !.phase = "ok", !.snap = TurnMessages(srvHistory[r.doc])]}
       \/ histReqs' = (histReqs \ {r}) \cup {[r EXCEPT !.phase = "fail"]}
    /\ UNCHANGED <<messages, inputValue, loading, error, showDeleteDialog, clock,
                   sendReqs, clearReqs, lastReset>>
    /\ UNCHANGED <<srvVars, appVars, docsVars>>
    /\ UNCHANGED upVars
    /\ UNCHANGED <<coreVars, pureVars>>

\* loadChatHistory after its await.
loadChatHistoryDone(r) ==
    /\ r.phase # "sent"
    /\ histReqs' = histReqs \ {r}
    /\ IF r.phase = "ok"
       THEN messages' = r.snap /\ error' = error
       ELSE error' = "history" /\ messages' = messages
    /\ UNCHANGED <<inputValue, loading, showDeleteDialog, clock, sendReqs, clearReqs, lastReset>>
    /\ UNCHANGED <<srvVars, appVars, docsVars>>
    /\ UNCHANGED upVars
    /\ UNCHANGED <<coreVars, pureVars>>

\* onChange of the text field, which is disabled while loading.
setInputValue(v) ==
    /\ ChatMounted(currentView, selectedDocument)
    /\ ~loading
    /\ v # inputValue
    /\ inputValue' = v
    /\ UNCHANGED <<messages, loading, error, showDeleteDialog, clock,
                   histReqs, sendReqs, clearReqs, lastReset>>
    /\ UNCHANGED <<srvVars, appVars, docsVars>>
    /\ UNCHANGED upVars
    /\ UNCHANGED <<coreVars, pureVars>>

userMessage(question, now) ==
    [question |-> question, answer |-> NullAnswer, timestamp |-> now, isUser |-> TRUE]

\* The aiMessage built from the response to the request that sent um.
aiMessage(um) ==
    [question |-> um.question, answer |-> "a", timestamp |-> um.timestamp, isUser |-> FALSE]

\* handleSubmit without its early return.
handleSubmit_NoGuard ==
    /\ ChatMounted(currentView, selectedDocument)
    /\ clock < MaxQuestions
    /\ clock' = clock + 1
    /\ inputValue' = ""
    /\ error' = NoError
    /\ messages' = Append(messages, userMessage(Trim(inputValue), clock + 1))
    /\ loading' = TRUE
    /\ sendReqs' = sendReqs \cup
          {[doc |-> selectedDocument.id, phase |-> "sent",
            userMessage |-> userMessage(Trim(inputValue), clock + 1),
            alive |-> TRUE]}
    /\ UNCHANGED <<showDeleteDialog, histReqs, clearReqs, lastReset>>
    /\ UNCHANGED <<srvVars, appVars, docsVars>>
    /\ UNCHANGED upVars
    /\ UNCHANGED <<coreVars, pureVars>>

\* handleSubmit up to its await.
handleSubmit ==
    /\ ChatMounted(currentView, selectedDocument)
    /\ IF Trim(inputValue) = "" \/ loading
       THEN UNCHANGED vars
       ELSE /\ clock < MaxQuestions
            /\ clock' = clock + 1
            /\ inputValue' = ""
            /\ error' = NoError
            /\ messages' = Append(messages, userMessage(Trim(inputValue), clock + 1))
            /\ loading' = TRUE
            /\ sendReqs' = sendReqs \cup
                  {[doc |-> selectedDocument.id, phase |-> "sent",
                    userMessage |-> userMessage(Trim(inputValue), clock + 1),
                    alive |-> TRUE]}
            /\ UNCHANGED <<showDeleteDialog, histReqs, clearReqs, lastReset>>
            /\ UNCHANGED <<srvVars, appVars, docsVars>>
    /\ UNCHANGED upVars
    /\ UNCHANGED <<coreVars, pureVars>>

\* POST /chat answered by the backend: a turn is stored only with its answer.
ServeSend(r) ==
    /\ r.phase = "sent"
    /\ \/ /\ srvDocs[r.doc].st = "Indexed"
          /\ srvHistory' = [srvHistory EXCEPT ![r.doc] = Append(@, r.userMessage.timestamp)]
          /\ sendReqs' = (sendReqs \ {r}) \cup
                (IF r.alive THEN {[r EXCEPT !.phase = "ok"]} ELSE {})
       \/ /\ sendReqs' = (sendReqs \ {r}) \cup
                (IF r.alive THEN {[r EXCEPT !.phase = "fail"]} ELSE {})
          /\ UNCHANGED srvHistory
    /\ UNCHANGED <<messages, inputValue, loading, error, showDeleteDialog, clock,
                   histReqs, clearReqs, lastReset>>
    /\ UNCHANGED <<srvDocs, appVars, docsVars>>
    /\ UNCHANGED upVars
    /\ UNCHANGED <<coreVars, pureVars>>

\* The 30 seconds of apiClient expire before POST /chat is answered: axios
\* rejects, and the interceptor throws its "no response" error.  The backend
\* may still finish the turn and store it.
SendTimeout(r) ==
    /\ r.phase = "sent"
    /\ sendReqs' = (sendReqs \ {r}) \cup
          (IF r.alive THEN {[r EXCEPT !.phase = "timeout"]} ELSE {})
    /\ \/ UNCHANGED srvHistory
       \/ /\ srvDocs[r.doc].st = "Indexed"
          /\ srvHistory' = [srvHistory EXCEPT ![r.doc] = Append(@, r.userMessage.timestamp)]
    /\ UNCHANGED <<messages, inputValue, loading, error, showDeleteDialog, clock,
                   histReqs, clearReqs, lastReset>>
    /\ UNCHANGED <<srvDocs, appVars, docsVars>>
    /\ UNCHANGED upVars
    /\ UNCHANGED <<coreVars, pureVars>>

\* err.message of a rejected chat request.
SendError(r) == IF r.phase = "timeout" THEN "Impossibile contattare il server" ELSE "chat"

\* handleSubmit after its await, without the finally block.
handleSubmitDone_NoFinally(r) ==
    /\ r.phase # "sent"
    /\ sendReqs' = sendReqs \ {r}
    /\ IF r.phase = "ok"
       THEN /\ messages' = SliceInit(messages) \o <<r.userMessage, aiMessage(r.userMessage)>>
            /\ error' = error
            /\ loading' = FALSE
       ELSE /\ error' = SendError(r)
            /\ messages' = SliceInit(messages)
            /\ loading' = loading
    /\ UNCHANGED <<inputValue, showDeleteDialog, clock, histReqs, clearReqs, lastReset>>
    /\ UNCHANGED <<srvVars, appVars, docsVars>>
    /\ UNCHANGED upVars
    /\ UNCHANGED <<coreVars, pureVars>>

\* handleSubmit after its await: response.success, or !success and catch; finally.
handleSubmitDone(r) ==
    /\ r.phase # "sent"
    /\ sendReqs' = sendReqs \ {r}
    /\ IF r.phase = "ok"
       THEN /\ messages' = SliceInit(messages) \o <<r.userMessage, aiMessage(r.userMessage)>>
            /\ error' = error
       ELSE /\ error' = SendError(r)
            /\ messages' = SliceInit(messages)
    /\ loading' = FALSE
    /\ UNCHANGED <<inputValue, showDeleteDialog, clock, histReqs, clearReqs, lastReset>>
    /\ UNCHANGED <<srvVars, appVars, docsVars>>
    /\ UNCHANGED upVars
    /\ UNCHANGED <<coreVars, pureVars>>

\* The bin icon, shown while the list has entries.
OpenClearDialog ==
    /\ ChatMounted(currentView, selectedDocument)
    /\ messages # <<>>
    /\ ~showDeleteDialog
    /\ showDeleteDialog' = TRUE
    /\ UNCHANGED <<messages, inputValue, loading, error, clock, histReqs, sendReqs, clearReqs, lastReset>>
    /\ UNCHANGED <<srvVars, appVars, docsVars>>
    /\ UNCHANGED upVars
    /\ UNCHANGED <<coreVars, pureVars>>

CloseClearDialog ==
    /\ ChatMounted(currentView, selectedDocument)
    /\ showDeleteDialog
    /\ showDeleteDialog' = FALSE
    /\ UNCHANGED <<messages, inputValue, loading, error, clock, histReqs, sendReqs, clearReqs, lastReset>>
    /\ UNCHANGED <<srvVars, appVars, docsVars>>
    /\ UNCHANGED upVars
    /\ UNCHANGED <<coreVars, pureVars>>

\* clearHistory up to its await ("Elimina" in the dialog).
clearHistory ==
    /\ ChatMounted(currentView, selectedDocument)
    /\ showDeleteDialog
    /\ Cardinality(clearReqs) < MaxPending
    /\ clearReqs' = clearReqs \cup
          {[doc |-> selectedDocument.id, phase |-> "sent", alive |-> TRUE]}
    /\ UNCHANGED <<messages, inputValue, loading, error, showDeleteDialog, clock,
                   histReqs, sendReqs, lastReset>>
    /\ UNCHANGED <<srvVars, appVars, docsVars>>
    /\ UNCHANGED upVars
    /\ UNCHANGED <<coreVars, pureVars>>

\* DELETE /chat/history/{id} answered by the backend.
ServeClear(r) ==
    /\ r.phase = "sent"
    /\ \/ /\ srvHistory' = [srvHistory EXCEPT ![r.doc] = <<>>]
          /\ clearReqs' = (clearReqs \ {r}) \cup
                (IF r.alive THEN {[r EXCEPT !.phase = "ok"]} ELSE {})
       \/ /\ clearReqs' = (clearReqs \ {r}) \cup
                (IF r.alive THEN {[r EXCEPT !.phase = "fail"]} ELSE {})
          /\ UNCHANGED srvHistory
    /\ UNCHANGED <<messages, inputValue, loading, error, showDeleteDialog, clock,
                   histReqs, sendReqs, lastReset>>
    /\ UNCHANGED <<srvDocs, appVars, docsVars>>
    /\ UNCHANGED upVars
    /\ UNCHANGED <<coreVars, pureVars>>

\* clearHistory ending like handleSubmit does, with setLoading(false).
clearHistoryDone_ResetsLoading(r) ==
    /\ r.phase # "sent"
    /\ clearReqs' = clearReqs \ {r}
    /\ IF r.phase = "ok"
       THEN /\ messages' = <<>>
            /\ showDeleteDialog' = FALSE
            /\ error' = error
            /\ lastReset' = clock
       ELSE /\ error' = "clear"
            /\ UNCHANGED <<messages, showDeleteDialog, lastReset>>
    /\ loading' = FALSE
    /\ UNCHANGED <<inputValue, clock, histReqs, sendReqs>>
    /\ UNCHANGED <<srvVars, appVars, docsVars>>
    /\ UNCHANGED upVars
    /\ UNCHANGED <<coreVars, pureVars>>

\* clearHistory with the list emptied whether or not the request succeeded.
clearHistoryDone_ClearsOnFailure(r) ==
    /\ r.phase # "sent"
    /\ clearReqs' = clearReqs \ {r}
    /\ messages' = <<>>
    /\ IF r.phase = "ok"
       THEN /\ showDeleteDialog' = FALSE
            /\ error' = error
            /\ lastReset' = clock
       ELSE /\ error' = "clear"
            /\ UNCHANGED <<showDeleteDialog, lastReset>>
    /\ UNCHANGED <<inputValue, loading, clock, histReqs, sendReqs>>
    /\ UNCHANGED <<srvVars, appVars, docsVars>>
    /\ UNCHANGED upVars
    /\ UNCHANGED <<coreVars, pureVars>>

\* clearHistory after its await.
clearHistoryDone(r) ==
    /\ r.phase # "sent"
    /\ clearReqs' = clearReqs \ {r}
    /\ IF r.phase = "ok"
       THEN /\ messages' = <<>>
            /\ showDeleteDialog' = FALSE
            /\ error' = error
            /\ lastReset' = clock
       ELSE /\ error' = "clear"
            /\ UNCHANGED <<messages, showDeleteDialog, lastReset>>
    /\ UNCHANGED <<inputValue, loading, clock, histReqs, sendReqs>>
    /\ UNCHANGED <<srvVars, appVars, docsVars>>
    /\ UNCHANGED upVars
    /\ UNCHANGED <<coreVars, pureVars>>

\* -------------------------------------------------------------- UploadZone
\* What react-dropzone hands to onDrop for one drop: a single accepted PDF,
\* a rejection with its first error code, or no file at all.
Drops == {"pdf", "file-too-large", "file-invalid-type", "too-many-files", "none"}

\* Which of the five returns of the render is on screen.
UploadScreen ==
    IF uploadResult # NullDoc /\ uploadError = NoError /\ pollingActive THEN "processing"
    ELSE IF uploadResult # NullDoc /\ uploadError = NoError /\ ~pollingActive THEN "success"
    ELSE IF uploadError # NoError THEN "error"
    ELSE IF uploading THEN "uploading"
    ELSE "dropzone"

isComplete == processingStatus # NullDoc /\ processingStatus.processing_complete

\* The title of the processing view.
ProcessingTitle ==
    IF isComplete THEN "Elaborazione Completata!" ELSE "Elaborazione in Corso..."

\* The status chip of a card of DocumentsList.
StatusChip(document) == IF document.processing_complete THEN "Pronto" ELSE "Elaborazione"

\* The only button of the processing view, and the button of the success and
\* of the error view.
ResetEnabled ==
    \/ UploadScreen = "processing" /\ isComplete
    \/ UploadScreen \in {"success", "error"}

\* App.handleUploadComplete, and the effect of DocumentsList on refreshTrigger.
handleUploadComplete(result) ==
    /\ refreshTrigger' = refreshTrigger + 1
    /\ console' = Append(console, result)
    /\ IF DocsMounted(currentView)
       THEN /\ loadDocuments(TRUE)
            /\ UNCHANGED <<documents, deleteDialog, deleting, hasProcessingDocs, listVars, delReqs>>
       ELSE UNCHANGED docsVars
    /\ UNCHANGED <<currentView, selectedDocument, chatVars>>

\* The onUploadStart App passes to UploadZone: it writes the file to the log.
onUploadStart(file) == console' = Append(console, [started |-> file])

\* The uploads started so far.
Started == {i \in 1..Len(console) : "started" \in DOMAIN console[i]}

\* What useDropzone rejects: a file over maxSize, a file that is no PDF, and
\* more than one file.
Rejected == {"file-too-large", "file-invalid-type", "too-many-files"}

\* onDrop with onUploadStart called before the rejected files are looked at.
onDrop_StartsUnvalidated(drop) ==
    /\ UpMounted(currentView) /\ UploadScreen = "dropzone"
    /\ drop # "none" => Cardinality(Started) < MaxUploads
    /\ drop = "pdf" => BagCardinality(uploadReqs) < MaxPending
    /\ uploadResult' = NullDoc
    /\ processingStatus' = NullDoc
    /\ pollingActive' = FALSE
    /\ IF drop \in Rejected
       THEN /\ uploadError' = drop
            /\ onUploadStart(drop)
            /\ UNCHANGED <<uploading, uploadReqs>>
       ELSE IF drop = "none"
       THEN /\ uploadError' = NoError
            /\ UNCHANGED <<uploading, uploadReqs, console>>
       ELSE /\ uploadError' = NoError
            /\ uploading' = TRUE
            /\ onUploadStart(drop)
            /\ uploadReqs' = BagAdd(uploadReqs,
                                 [phase |-> "sent", result |-> NullDoc, alive |-> TRUE])
    /\ UNCHANGED statusReqs
    /\ UNCHANGED <<srvVars, appVars, docsVars, chatVars>>
    /\ UNCHANGED <<coreVars, pureVars>>

\* onDrop up to its await.  The progress bar is not modelled.
onDrop(drop) ==
    /\ UpMounted(currentView) /\ UploadScreen = "dropzone"
    /\ drop = "pdf" => Cardinality(Started) < MaxUploads
    /\ drop = "pdf" => BagCardinality(uploadReqs) < MaxPending
    /\ uploadResult' = NullDoc
    /\ processingStatus' = NullDoc
    /\ pollingActive' = FALSE
    /\ IF drop \in Rejected
       THEN /\ uploadError' = drop
            /\ UNCHANGED <<uploading, uploadReqs, console>>
       ELSE IF drop = "none"
       THEN /\ uploadError' = NoError
            /\ UNCHANGED <<uploading, uploadReqs, console>>
       ELSE /\ uploadError' = NoError
            /\ uploading' = TRUE
            /\ onUploadStart(drop)
            /\ uploadReqs' = BagAdd(uploadReqs,
                                 [phase |-> "sent", result |-> NullDoc, alive |-> TRUE])
    /\ UNCHANGED statusReqs
    /\ UNCHANGED <<srvVars, appVars, docsVars, chatVars>>
    /\ UNCHANGED <<coreVars, pureVars>>

\* The identifiers the backend has not given to a document yet.
FreeIds == {d \in Docs : srvDocs[d].st = "None"}

\* POST /upload answered by the backend: the document gets a new identifier
\* and its ingestion starts in the background.
ServeUpload(r) ==
    /\ r.phase = "sent"
    /\ \/ /\ FreeIds # {}
          /\ LET d == CHOOSE x \in FreeIds : \A y \in FreeIds : x <= y
             IN  /\ srvDocs' = [srvDocs EXCEPT ![d] = [st |-> "Processing", chunk_count |-> 0]]
                 /\ uploadReqs' = BagAdd(BagDel(uploadReqs, r),
                        [r EXCEPT !.phase = "ok",
                                  !.result = [id |-> d, processing_complete |-> FALSE,
                                              chunk_count |-> 0, failed |-> FALSE]])
          /\ UNCHANGED srvHistory
       \/ /\ uploadReqs' = IF r.alive
                           THEN BagAdd(BagDel(uploadReqs, r), [r EXCEPT !.phase = "fail"])
                           ELSE BagDel(uploadReqs, r)
          /\ UNCHANGED srvVars
    /\ UNCHANGED <<uploading, uploadResult, uploadError, processingStatus, pollingActive,
                   statusReqs, console>>
    /\ UNCHANGED <<appVars, docsVars, chatVars>>
    /\ UNCHANGED <<coreVars, pureVars>>

\* onDrop after its await: try / catch / finally, then the polling effect,
\* whose first checkStatus is immediate.
onDropDone(r) ==
    /\ r.phase # "sent"
    /\ uploadReqs' = BagDel(uploadReqs, r)
    /\ IF r.phase = "ok"
       THEN /\ handleUploadComplete(r.result)
            /\ IF r.alive
               THEN /\ uploadResult' = r.result
                    /\ pollingActive' = TRUE
                    /\ uploading' = FALSE
                    /\ statusReqs' = BagAdd(statusReqs,
                           [uploadResult |-> r.result, phase |-> "sent",
                            status |-> NullDoc, alive |-> TRUE])
                    /\ UNCHANGED <<uploadError, processingStatus>>
               ELSE /\ PollingEffect
                    /\ UNCHANGED <<uploading, uploadResult, uploadError, processingStatus,
                                   pollingActive>>
       ELSE /\ IF r.alive
               THEN /\ uploadError' = "upload"
                    /\ uploading' = FALSE
               ELSE UNCHANGED <<uploadError, uploading>>
            /\ UNCHANGED <<uploadResult, processingStatus, pollingActive, statusReqs, console>>
            /\ UNCHANGED <<appVars, docsVars, chatVars>>
    /\ UNCHANGED srvVars
    /\ UNCHANGED <<coreVars, pureVars>>

\* The interval of the polling effect fires.
PollTick ==
    /\ UpMounted(currentView) /\ PollingOn
    /\ BagCardinality(statusReqs) < MaxPolls
    /\ statusReqs' = BagAdd(statusReqs, checkStatus)
    /\ UNCHANGED <<uploading, uploadResult, uploadError, processingStatus, pollingActive,
                   uploadReqs, console>>
    /\ UNCHANGED <<srvVars, appVars, docsVars, chatVars>>
    /\ UNCHANGED <<coreVars, pureVars>>

\* GET /upload/status/{id} answered by the backend.
ServeStatus(r) ==
    /\ r.phase = "sent"
    /\ \/ /\ Stored(r.uploadResult.id)
          /\ statusReqs' =
                IF r.alive \/ DocView(r.uploadResult.id).processing_complete
                THEN BagAdd(BagDel(statusReqs, r),
                            [r EXCEPT !.phase = "ok", !.status = DocView(r.uploadResult.id)])
                ELSE BagDel(statusReqs, r)
       \/ statusReqs' = IF r.alive
                        THEN BagAdd(BagDel(statusReqs, r), [r EXCEPT !.phase = "fail"])
                        ELSE BagDel(statusReqs, r)
    /\ UNCHANGED <<uploading, uploadResult, uploadError, processingStatus, pollingActive,
                   uploadReqs, console>>
    /\ UNCHANGED <<srvVars, appVars, docsVars, chatVars>>
    /\ UNCHANGED <<coreVars, pureVars>>

\* checkStatus after its await, without the onUploadComplete call of the
\* completed branch.
checkStatusDone_NoNotify(r) ==
    /\ r.phase # "sent"
    /\ statusReqs' = BagDel(statusReqs, r)
    /\ processingStatus' = (IF r.alive /\ r.phase = "ok" THEN r.status ELSE processingStatus)
    /\ pollingActive' = (IF r.alive /\ r.phase = "ok" /\ r.status.processing_complete
                         THEN FALSE ELSE pollingActive)
    /\ UNCHANGED <<uploading, uploadResult, uploadError, uploadReqs, console>>
    /\ UNCHANGED <<srvVars, appVars, docsVars, chatVars>>
    /\ UNCHANGED <<coreVars, pureVars>>

\* checkStatus after its await.  A status that reports completion stops the
\* polling and notifies the parent with the uploadResult of the closure; a
\* failed request is only logged.
checkStatusDone(r) ==
    /\ r.phase # "sent"
    /\ IF r.phase = "ok" /\ r.status.processing_complete
       THEN /\ handleUploadComplete([r.uploadResult EXCEPT
                                        !.processing_complete = TRUE,
                                        !.chunk_count = r.status.chunk_count])
            /\ IF r.alive
               THEN /\ processingStatus' = r.status
                    /\ pollingActive' = FALSE
                    /\ statusReqs' = BagDel(statusReqs, r)
               ELSE /\ statusReqs' = PollingEffectOn(BagDel(statusReqs, r))
                    /\ UNCHANGED <<processingStatus, pollingActive>>
       ELSE /\ statusReqs' = BagDel(statusReqs, r)
            /\ processingStatus' = (IF r.alive /\ r.phase = "ok" THEN r.status
                                    ELSE processingStatus)
            /\ UNCHANGED <<pollingActive, console>>
            /\ UNCHANGED <<appVars, docsVars, chatVars>>
    /\ UNCHANGED <<uploading, uploadResult, uploadError, uploadReqs>>
    /\ UNCHANGED srvVars
    /\ UNCHANGED <<coreVars, pureVars>>

\* "Carica Altro Documento" and "Riprova".
resetUpload ==
    /\ UpMounted(currentView) /\ ResetEnabled
    /\ uploadResult' = NullDoc
    /\ uploadError' = NoError
    /\ processingStatus' = NullDoc
    /\ pollingActive' = FALSE
    /\ UNCHANGED <<uploading, uploadReqs, statusReqs, console>>
    /\ UNCHANGED <<srvVars, appVars, docsVars, chatVars>>
    /\ UNCHANGED <<coreVars, pureVars>>

\* ------------------------------------------------------------ api/client.js
\* JavaScript values: undefined, null, a number, a boolean.  A similarity
\* threshold is counted in tenths, so that Num(1) is 0.1.
Undefined == [t |-> "undefined", v |-> 0]
Null == [t |-> "null", v |-> 0]
Num(n) == [t |-> "number", v |-> n]
Bool(b) == [t |-> "boolean", v |-> IF b THEN 1 ELSE 0]

\* options.key: undefined when the object has no such property.
Get(options, key) == IF key \in DOMAIN options THEN options[key] ELSE Undefined

\* a || b
Coalesce_Falsy(a, b) == IF a.t \in {"undefined", "null"} \/ a.v = 0 THEN b ELSE a

\* a ?? b
Coalesce(a, b) == IF a.t \in {"undefined", "null"} THEN b ELSE a

\* A string, and the detail FastAPI sends for a request that fails
\* validation: a list of objects.  s is what String(value) gives.
Str(s) == [t |-> "string", v |-> IF s = "" THEN 0 ELSE 1, s |-> s]
ValidationErrors == [t |-> "object", v |-> 1, s |-> "[object Object]"]

Truthy(a) == a.t \notin {"undefined", "null"} /\ a.v # 0

\* a || b
Or(a, b) == IF Truthy(a) THEN a ELSE b

\* The message of new Error(a): a converted to a string.
ErrorMessage(a) == IF a.t = "undefined" THEN "" ELSE a.s

\* error.response when the request got no response.
NoResponse == [status |-> 0]

Unreachable ==
    Str("Impossibile contattare il server. Verifica che il backend sia in esecuzione.")

\* error.response.data?.key
DataGet(data, key) == IF key \in DOMAIN data THEN data[key] ELSE Undefined

\* The response interceptor with ?? in place of ||.
interceptor_Nullish(err) ==
    IF err.response # NoResponse
    THEN <<ErrorMessage(Coalesce(DataGet(err.response.data, "detail"),
                                 Coalesce(DataGet(err.response.data, "message"), Str("Errore del server"))))>>
    ELSE IF err.request
    THEN <<ErrorMessage(Unreachable)>>
    ELSE <<"Errore nella richiesta: ", err.message>>

\* The rejection handler of the response interceptor: the message of the
\* Error it throws, as the pieces that are concatenated.
interceptor(err) ==
    IF err.response # NoResponse
    THEN <<ErrorMessage(Or(DataGet(err.response.data, "detail"),
                           Or(DataGet(err.response.data, "message"), Str("Errore del server"))))>>
    ELSE IF err.request
    THEN <<ErrorMessage(Unreachable)>>
    ELSE <<"Errore nella richiesta: ", err.message>>

DefaultMaxChunks == 5
DefaultSimilarityThreshold == 1

\* The payload chatAPI.sendMessage posts to /chat; options is <<>>, the empty
\* object, when the caller passes none.
sendMessagePayload(documentId, question, options) ==
    LET o == IF options = Undefined THEN <<>> ELSE options
    IN  [document_id |-> documentId,
         question |-> question,
         include_sources |-> Coalesce(Get(o, "includeSources"), Bool(TRUE)),
         max_chunks |-> Coalesce(Get(o, "maxChunks"), Num(DefaultMaxChunks)),
         similarity_threshold |->
             Coalesce(Get(o, "similarityThreshold"), Num(DefaultSimilarityThreshold))]

\* chatAPI.sendMessage called on its own: the payload it builds.
sendMessage ==
    /\ input # NoCall /\ output = NoCall
    /\ output' = <<sendMessagePayload(input[1].documentId, input[1].question,
                                      input[1].options)>>
    /\ UNCHANGED input
    /\ UNCHANGED <<srvVars, appVars, docsVars, chatVars, upVars, coreVars>>

\* ------------------------------------------------------------ Vector Index
\* The index of one document as a query sees it: index[i] is the similarity
\* of the query vector to the vector of chunk i - 1, in tenths.
Entries(index) == {[chunk_id |-> i - 1, score |-> index[i]] : i \in 1..Len(index)}

\* The entries whatever their score.
Passing_NoThreshold(index, t) == Entries(index)

\* The entries that clear the threshold.
Passing(index, t) == {e \in Entries(index) : e.score >= t}

\* The ranking with ties in descending chunk_id order.
Before_DescendingId(a, b) ==
    a.score > b.score \/ (a.score = b.score /\ a.chunk_id > b.chunk_id)

\* The ranking: descending by score, equal scores in ascending chunk_id order.
Before(a, b) ==
    a.score > b.score \/ (a.score = b.score /\ a.chunk_id < b.chunk_id)

RECURSIVE Ranked(_)
Ranked(S) ==
    IF S = {} THEN <<>>
    ELSE LET first == CHOOSE a \in S : \A b \in S \ {a} : Before(a, b)
         IN  <<first>> \o Ranked(S \ {first})

Take(s, k) == SubSeq(s, 1, IF k < Len(s) THEN k ELSE Len(s))

\* search(query_vector, k, min_similarity)
SearchResults(index, k, t) == Take(Ranked(Passing(index, t)), k)

\* One call of search; the index is not written in between.
search ==
    /\ input # NoCall /\ Len(output) < MaxCalls
    /\ output' = Append(output, SearchResults(input[1].index, input[1].k, input[1].t))
    /\ UNCHANGED input
    /\ UNCHANGED <<srvVars, appVars, docsVars, chatVars, upVars, coreVars>>

\* ----------------------------------------------------------------- Chunker
\* The distance between the starts of two neighbouring chunks.
Stride(cfg) == cfg.chunk_size - cfg.overlap

\* The starts of the full-size chunks only.
Starts_FullOnly(n, cfg) ==
    {k * Stride(cfg) : k \in {j \in 0..n : j * Stride(cfg) + cfg.chunk_size <= n}}

\* The characters (counted from 0) at which a chunk of a text of n characters
\* starts.
Starts(n, cfg) == {k * Stride(cfg) : k \in {j \in 0..n : j * Stride(cfg) < n}}

\* The chunks of a text: chunk i starts i strides into the text and ends
\* chunk_size characters later or at the end of the text.
Chunker(text, cfg) ==
    [i \in 1..Cardinality(Starts(Len(text), cfg)) |->
        LET start == (i - 1) * Stride(cfg)
            end == IF start + cfg.chunk_size < Len(text)
                   THEN start + cfg.chunk_size ELSE Len(text)
        IN  [id |-> i - 1, text |-> SubSeq(text, start + 1, end)]]

\* The Chunker run on one text.
chunk ==
    /\ input # NoCall /\ output = NoCall
    /\ output' = <<Chunker(input[1].text, input[1].cfg)>>
    /\ UNCHANGED input
    /\ UNCHANGED <<srvVars, appVars, docsVars, chatVars, upVars, coreVars>>

\* ------------------------------------------------- ingestion and retrieval
\* ingest(document_id, pdf_bytes) starts: the document is stored and its
\* pipeline begins with an empty index.
ingest(d) ==
    /\ srvDocs[d].st = "None"
    /\ srvDocs' = [srvDocs EXCEPT ![d] = [st |-> "Processing", chunk_count |-> 0]]
    /\ srvIndex' = [srvIndex EXCEPT ![d] = 0]
    /\ UNCHANGED <<srvHistory, srvQueries>>
    /\ UNCHANGED <<appVars, docsVars, chatVars, upVars, pureVars>>

\* insert(chunk_id, vector): the pipeline writes the next entry of the index.
IndexWrite(d) ==
    /\ srvDocs[d].st = "Processing"
    /\ srvIndex[d] < ChunksOf(d)
    /\ srvIndex' = [srvIndex EXCEPT ![d] = @ + 1]
    /\ UNCHANGED <<srvVars, srvQueries>>
    /\ UNCHANGED <<appVars, docsVars, chatVars, upVars, pureVars>>

\* Every chunk has its entry: the document is marked processing-complete.
IngestComplete(d) ==
    /\ srvDocs[d].st = "Processing"
    /\ srvIndex[d] = ChunksOf(d)
    /\ srvDocs' = [srvDocs EXCEPT ![d] = [st |-> "Indexed", chunk_count |-> ChunksOf(d)]]
    /\ UNCHANGED <<srvHistory, coreVars>>
    /\ UNCHANGED <<appVars, docsVars, chatVars, upVars, pureVars>>

\* Extraction or embedding fails: the document is marked Failed.
IngestFail(d) ==
    /\ srvDocs[d].st = "Processing"
    /\ srvDocs' = [srvDocs EXCEPT ![d].st = "Failed"]
    /\ UNCHANGED <<srvHistory, coreVars>>
    /\ UNCHANGED <<appVars, docsVars, chatVars, upVars, pureVars>>

\* A document is queryable as soon as it is stored.
Ready_Stored(d) == Stored(d)

\* A document is queryable once its processing is complete.
Ready(d) == srvDocs[d].st = "Indexed"

\* ask(document_id, question, ...) arrives: rejected with DocumentNotReady
\* unless the document is queryable.
ask(d) ==
    /\ Len(srvQueries) < MaxQueries
    /\ srvQueries' = Append(srvQueries,
           [doc |-> d,
            phase |-> IF Ready(d) THEN "retrieving" ELSE "DocumentNotReady",
            entries |-> 0])
    /\ UNCHANGED <<srvVars, srvIndex>>
    /\ UNCHANGED <<appVars, docsVars, chatVars, upVars, pureVars>>

\* The Retriever searches the index of the document for query i.
retrieve(i) ==
    /\ srvQueries[i].phase = "retrieving"
    /\ srvQueries' = [srvQueries EXCEPT ![i].phase = "answered",
                                       ![i].entries = srvIndex[srvQueries[i].doc]]
    /\ UNCHANGED <<srvVars, srvIndex>>
    /\ UNCHANGED <<appVars, docsVars, chatVars, upVars, pureVars>>

\* ----------------------------------------------------------- specification
\* Documents uploaded before the page was loaded.
InitDocStates(d) ==
    {[st |-> "Processing", chunk_count |-> 0],
     [st |-> "Indexed", chunk_count |-> ChunksOf(d)]}

Init ==
    /\ srvDocs \in {f \in [Docs -> UNION {InitDocStates(d) : d \in Docs}] :
                        \A d \in Docs : f[d] \in InitDocStates(d)}
    /\ srvHistory = [d \in Docs |-> <<>>]
    /\ currentView = "documents"
    /\ selectedDocument = NullDoc
    /\ refreshTrigger = 0
    /\ documents = {}
    /\ listLoading = TRUE
    /\ listError = NoError
    /\ deleteDialog = ClosedDialog
    /\ deleting = 0
    /\ hasProcessingDocs = FALSE
    /\ searchTerm = ""
    /\ autoRefresh = TRUE
    /\ autoRefreshInterval = NullTimer
    /\ timers = EmptyBag
    /\ refreshReqs = {}
    /\ listReqs = {NewListReq(TRUE)}
    /\ delReqs = {}
    /\ messages = <<>>
    /\ inputValue = ""
    /\ loading = FALSE
    /\ error = NoError
    /\ showDeleteDialog = FALSE
    /\ clock = 0
    /\ histReqs = {}
    /\ sendReqs = {}
    /\ clearReqs = {}
    /\ lastReset = -1
    /\ uploading = FALSE
    /\ uploadResult = NullDoc
    /\ uploadError = NoError
    /\ processingStatus = NullDoc
    /\ pollingActive = FALSE
    /\ uploadReqs = EmptyBag
    /\ statusReqs = EmptyBag
    /\ console = <<>>
    /\ srvIndex = [d \in Docs |-> IF srvDocs[d].st = "Indexed" THEN ChunksOf(d) ELSE 0]
    /\ srvQueries = <<>>
    /\ input = NoCall /\ output = NoCall

\* DocumentsList on screen, a ChatInterface opened from it, questions asked.
SelectNext ==
    \/ \E d \in Docs : IngestStep(d)
    \/ \E view \in {"documents", "chat"} : handleViewChange(view)
    \/ handleBackFromChat
    \/ ReloadClick
    \/ \E r \in listReqs : ServeList(r)
    \/ \E r \in listReqs : loadDocumentsDone(r)
    \/ \E document \in documents : handleSelectForChat(document)
    \/ \E v \in Inputs : setInputValue(v)
    \/ handleSubmit
    \/ \E r \in sendReqs : ServeSend(r)
    \/ \E r \in sendReqs : SendTimeout(r)
    \/ \E r \in sendReqs : handleSubmitDone(r)

SpecSelect == Init /\ [][SelectNext]_vars

\* DocumentsList with its delete dialog, and App's navigation.
DeleteNext ==
    \/ \E d \in Docs : IngestStep(d)
    \/ \E view \in {"documents", "chat"} : handleViewChange(view)
    \/ handleBackFromChat
    \/ ReloadClick
    \/ \E r \in listReqs : ServeList(r)
    \/ \E r \in listReqs : loadDocumentsDone(r)
    \/ \E d \in Docs : OpenDeleteDialog(d)
    \/ CloseDeleteDialog
    \/ \E d \in Docs : handleDelete(d)
    \/ \E r \in delReqs : ServeDelete(r)
    \/ \E r \in delReqs : handleDeleteOk(r)
    \/ \E r \in delReqs : handleDeleteFail(r)
    \/ \E document \in documents : handleSelectForChat(document)

SpecDelete == Init /\ [][DeleteNext]_vars

\* The list with its reloads, its per-document refresh and its deletes, while
\* the backend processes the documents.
RefreshNext ==
    \/ \E d \in Docs : IngestStep(d)
    \/ ReloadClick
    \/ \E r \in listReqs : ServeList(r)
    \/ \E r \in listReqs : loadDocumentsDone(r)
    \/ \E d \in Docs : refreshSingleDocument(d)
    \/ \E r \in refreshReqs : ServeRefresh(r)
    \/ \E r \in refreshReqs : refreshSingleDocumentDone(r)
    \/ \E d \in Docs : OpenDeleteDialog(d)
    \/ CloseDeleteDialog
    \/ \E d \in Docs : handleDelete(d)
    \/ \E r \in delReqs : ServeDelete(r)
    \/ \E r \in delReqs : handleDeleteOk(r)
    \/ \E r \in delReqs : handleDeleteFail(r)

SpecRefresh == Init /\ [][RefreshNext]_vars

\* The list with its auto-refresh, while the backend processes the documents
\* and the user moves between the views.
TimerNext ==
    \/ \E d \in Docs : IngestStep(d)
    \/ \E view \in {"documents", "upload"} : handleViewChange(view)
    \/ \E r \in listReqs : ServeList(r)
    \/ \E r \in listReqs : loadDocumentsDone(r)
    \/ toggleAutoRefresh
    \/ \E t \in Terms : TimerTick(t)

SpecTimer == Init /\ [][TimerNext]_vars

\* The list with its search field, while the interval reloads it and the
\* backend processes the documents.
FilterNext ==
    \/ \E d \in Docs : IngestStep(d)
    \/ \E r \in listReqs : ServeList(r)
    \/ \E r \in listReqs : loadDocumentsDone(r)
    \/ \E value \in Terms : setSearchTerm(value)
    \/ \E t \in Terms : TimerTick(t)

SpecFilter == Init /\ [][FilterNext]_vars

\* A backend that holds one document more, so that the list has an entry
\* next to the one that is deleted.
Library == 1..(NumDocs + 1)

InitLibrary ==
    /\ srvDocs \in {f \in [Library -> UNION {InitDocStates(d) : d \in Library}] :
                        \A d \in Library : f[d] \in InitDocStates(d)}
    /\ srvHistory = [d \in Library |-> <<>>]
    /\ currentView = "documents"
    /\ selectedDocument = NullDoc
    /\ refreshTrigger = 0
    /\ documents = {}
    /\ listLoading = TRUE
    /\ listError = NoError
    /\ deleteDialog = ClosedDialog
    /\ deleting = 0
    /\ hasProcessingDocs = FALSE
    /\ searchTerm = ""
    /\ autoRefresh = TRUE
    /\ autoRefreshInterval = NullTimer
    /\ timers = EmptyBag
    /\ refreshReqs = {}
    /\ listReqs = {NewListReq(TRUE)}
    /\ delReqs = {}
    /\ messages = <<>>
    /\ inputValue = ""
    /\ loading = FALSE
    /\ error = NoError
    /\ showDeleteDialog = FALSE
    /\ clock = 0
    /\ histReqs = {}
    /\ sendReqs = {}
    /\ clearReqs = {}
    /\ lastReset = -1
    /\ uploading = FALSE
    /\ uploadResult = NullDoc
    /\ uploadError = NoError
    /\ processingStatus = NullDoc
    /\ pollingActive = FALSE
    /\ uploadReqs = EmptyBag
    /\ statusReqs = EmptyBag
    /\ console = <<>>
    /\ srvIndex = [d \in Library |-> IF srvDocs[d].st = "Indexed" THEN ChunksOf(d) ELSE 0]
    /\ srvQueries = <<>>
    /\ input = NoCall /\ output = NoCall

LibraryNext ==
    \/ \E d \in Library : IngestStep(d)
    \/ \E r \in listReqs : ServeList(r)
    \/ \E r \in listReqs : loadDocumentsDone(r)
    \/ \E t \in Terms : TimerTick(t)
    \/ \E d \in Library : OpenDeleteDialog(d)
    \/ \E d \in Library : handleDelete(d)
    \/ \E r \in delReqs : ServeDelete(r)
    \/ \E r \in delReqs : handleDeleteOk(r)
    \/ \E r \in delReqs : handleDeleteFail(r)

SpecLibrary == InitLibrary /\ [][LibraryNext]_vars

\* A ChatInterface just mounted on document 1, which is indexed and may have
\* a conversation turn from an earlier session.
InitChat ==
    /\ srvDocs = [d \in Docs |-> [st |-> "Indexed", chunk_count |-> ChunksOf(d)]]
    /\ srvHistory \in {[d \in Docs |-> <<>>], [d \in Docs |-> IF d = 1 THEN <<0>> ELSE <<>>]}
    /\ currentView = "chat"
    /\ selectedDocument = [id |-> 1, processing_complete |-> TRUE, chunk_count |-> ChunksOf(1),
                           failed |-> FALSE]
    /\ refreshTrigger = 0
    /\ documents = {}
    /\ listLoading = FALSE
    /\ listError = NoError
    /\ deleteDialog = ClosedDialog
    /\ deleting = 0
    /\ hasProcessingDocs = FALSE
    /\ searchTerm = ""
    /\ autoRefresh = TRUE
    /\ autoRefreshInterval = NullTimer
    /\ timers = EmptyBag
    /\ refreshReqs = {}
    /\ listReqs = {}
    /\ delReqs = {}
    /\ messages = <<>>
    /\ inputValue = ""
    /\ loading = FALSE
    /\ error = NoError
    /\ showDeleteDialog = FALSE
    /\ clock = 0
    /\ histReqs = {NewHistReq(1)}
    /\ sendReqs = {}
    /\ clearReqs = {}
    /\ lastReset = -1
    /\ uploading = FALSE
    /\ uploadResult = NullDoc
    /\ uploadError = NoError
    /\ processingStatus = NullDoc
    /\ pollingActive = FALSE
    /\ uploadReqs = EmptyBag
    /\ statusReqs = EmptyBag
    /\ console = <<>>
    /\ srvIndex = [d \in Docs |-> IF srvDocs[d].st = "Indexed" THEN ChunksOf(d) ELSE 0]
    /\ srvQueries = <<>>
    /\ input = NoCall /\ output = NoCall

ChatNext ==
    \/ \E view \in {"documents", "chat"} : handleViewChange(view)
    \/ handleBackFromChat
    \/ \E r \in histReqs : ServeHistory(r)
    \/ \E r \in histReqs : loadChatHistoryDone(r)
    \/ \E v \in Inputs : setInputValue(v)
    \/ handleSubmit
    \/ \E r \in sendReqs : ServeSend(r)
    \/ \E r \in sendReqs : SendTimeout(r)
    \/ \E r \in sendReqs : handleSubmitDone(r)
    \/ OpenClearDialog
    \/ CloseClearDialog
    \/ clearHistory
    \/ \E r \in clearReqs : ServeClear(r)
    \/ \E r \in clearReqs : clearHistoryDone(r)

SpecChat == InitChat /\ [][ChatNext]_vars

\* The ChatInterface of SpecChat without its reset dialog.
AskNext ==
    \/ \E view \in {"documents", "chat"} : handleViewChange(view)
    \/ handleBackFromChat
    \/ \E r \in histReqs : ServeHistory(r)
    \/ \E r \in histReqs : loadChatHistoryDone(r)
    \/ \E v \in Inputs : setInputValue(v)
    \/ handleSubmit
    \/ \E r \in sendReqs : ServeSend(r)
    \/ \E r \in sendReqs : SendTimeout(r)
    \/ \E r \in sendReqs : handleSubmitDone(r)

SpecAsk == InitChat /\ [][AskNext]_vars

\* The timer of apiClient fires for a request that stays unanswered, and the
\* event loop runs the continuation of a settled request.
SpecAskFair ==
    /\ SpecAsk
    /\ WF_vars(\E r \in sendReqs : SendTimeout(r))
    /\ WF_vars(\E r \in sendReqs : handleSubmitDone(r))

\* The page just loaded and nothing uploaded yet: UploadZone and an empty
\* DocumentsList are on screen.
PageLoaded ==
    /\ srvDocs = [d \in Docs |-> [st |-> "None", chunk_count |-> 0]]
    /\ srvHistory = [d \in Docs |-> <<>>]
    /\ currentView = "documents"
    /\ selectedDocument = NullDoc
    /\ refreshTrigger = 0
    /\ documents = {}
    /\ listLoading = TRUE
    /\ listError = NoError
    /\ deleteDialog = ClosedDialog
    /\ deleting = 0
    /\ hasProcessingDocs = FALSE
    /\ searchTerm = ""
    /\ autoRefresh = TRUE
    /\ autoRefreshInterval = NullTimer
    /\ timers = EmptyBag
    /\ refreshReqs = {}
    /\ listReqs = {NewListReq(TRUE)}
    /\ delReqs = {}
    /\ messages = <<>>
    /\ inputValue = ""
    /\ loading = FALSE
    /\ error = NoError
    /\ showDeleteDialog = FALSE
    /\ clock = 0
    /\ histReqs = {}
    /\ sendReqs = {}
    /\ clearReqs = {}
    /\ lastReset = -1
    /\ uploading = FALSE
    /\ uploadResult = NullDoc
    /\ uploadError = NoError
    /\ processingStatus = NullDoc
    /\ pollingActive = FALSE
    /\ uploadReqs = EmptyBag
    /\ statusReqs = EmptyBag
    /\ console = <<>>
    /\ srvIndex = [d \in Docs |-> IF srvDocs[d].st = "Indexed" THEN ChunksOf(d) ELSE 0]
    /\ srvQueries = <<>>

InitUpload == PageLoaded /\ input = NoCall /\ output = NoCall

\* Uploads, the polling of their status, the list they refresh, and the way
\* into a chat and back, which unmounts UploadZone.
UploadNext ==
    \/ \E d \in Docs : IngestStep(d)
    \/ \E drop \in Drops : onDrop(drop)
    \/ \E r \in BagToSet(uploadReqs) : ServeUpload(r)
    \/ \E r \in BagToSet(uploadReqs) : onDropDone(r)
    \/ PollTick
    \/ \E r \in BagToSet(statusReqs) : ServeStatus(r)
    \/ \E r \in BagToSet(statusReqs) : checkStatusDone(r)
    \/ resetUpload
    \/ \E r \in listReqs : ServeList(r)
    \/ \E r \in listReqs : loadDocumentsDone(r)
    \/ \E document \in documents : handleSelectForChat(document)
    \/ handleBackFromChat

SpecUpload == InitUpload /\ [][UploadNext]_vars

\* The status responses that report completion.
CompleteResponses ==
    {[uploadResult |-> [id |-> d, processing_complete |-> FALSE, chunk_count |-> 0,
                        failed |-> FALSE],
      phase |-> "ok",
      status |-> [id |-> d, processing_complete |-> TRUE, chunk_count |-> ChunksOf(d),
                  failed |-> FALSE],
      alive |-> a] : d \in Docs, a \in BOOLEAN}

\* The event loop runs the continuation of every settled promise: a status
\* response that reports completion is handled.
SpecUploadFair ==
    SpecUpload /\ \A r \in CompleteResponses : WF_vars(checkStatusDone(r))

\* Drops, the uploads they start and the list they refresh, without the
\* polling and the navigation.
DropNext ==
    \/ \E drop \in Drops : onDrop(drop)
    \/ \E r \in BagToSet(uploadReqs) : ServeUpload(r)
    \/ \E r \in BagToSet(uploadReqs) : onDropDone(r)
    \/ resetUpload
    \/ \E r \in listReqs : ServeList(r)
    \/ \E r \in listReqs : loadDocumentsDone(r)

SpecDrop == InitUpload /\ [][DropNext]_vars

\* The values a caller may give a property of the options object.
OptionValues == {Undefined, Null, Num(0), Num(1), Num(DefaultMaxChunks), Num(7),
                 Bool(FALSE), Bool(TRUE)}
OptionKeys == {"includeSources", "maxChunks", "similarityThreshold"}

\* The options objects, and no options argument at all.
OptionObjects ==
    {Undefined} \cup UNION {[K -> OptionValues] : K \in SUBSET OptionKeys}

\* A call of chatAPI.sendMessage with any options.
InitPayload ==
    /\ PageLoaded
    /\ input \in {<<[documentId |-> d, question |-> " q ", options |-> o]>> :
                      d \in Docs, o \in OptionObjects}
    /\ output = NoCall

PayloadNext == sendMessage

SpecPayload == InitPayload /\ [][PayloadNext]_vars

\* The errors axios hands to the interceptor: a response with a status
\* outside 2xx and a body that is empty, null, a page of a proxy, or an object
\* with or without detail and message; no response
\* (network error or timeout), or a request that could not be set up.
AxiosErrors ==
    LET Details == {Undefined, Null, Str(""), Str("Documento non trovato"),
                    Str("Documento non pronto"), Str("Modello non disponibile"),
                    ValidationErrors}
        Messages == {Undefined, Null, Str(""), Str("Internal Server Error")}
        Bodies ==
            {<<>>, Null, Str("<html>Bad Gateway</html>")}
                \cup {[detail |-> d] : d \in Details \ {Undefined}}
                \cup {[message |-> m] : m \in Messages \ {Undefined}}
                \cup {[detail |-> d, message |-> m] : d \in Details \ {Undefined},
                                                     m \in Messages \ {Undefined}}
    IN  {[response |-> [status |-> c, data |-> b], request |-> TRUE,
          message |-> "Request failed"] : c \in {404, 500}, b \in Bodies}
        \cup {[response |-> NoResponse, request |-> q, message |-> m] :
                  q \in BOOLEAN, m \in {"", "Network Error", "timeout of 30000ms exceeded"}}

InitReject ==
    /\ PageLoaded
    /\ input \in AxiosErrors
    /\ output = NoCall

\* A call through apiClient fails: the interceptor rejects it.
reject ==
    /\ output = NoCall
    /\ output' = [message |-> interceptor(input)]
    /\ UNCHANGED <<srvVars, appVars, docsVars, chatVars, upVars, coreVars>>
    /\ UNCHANGED input

RejectNext == reject

SpecReject == InitReject /\ [][RejectNext]_vars

\* The indexes of at most n chunks.
Indexes(n) == UNION {[1..m -> 0..MaxScore] : m \in 0..n}

\* A search with any index content, any count and any threshold.
InitSearch ==
    /\ PageLoaded
    /\ input \in {<<[index |-> x, k |-> k, t |-> t]>> :
                      x \in Indexes(MaxChunks), k \in 0..MaxChunks, t \in 0..MaxScore}
    /\ output = NoCall

SearchNext == search

SpecSearch == InitSearch /\ [][SearchNext]_vars

\* The texts of at most n characters.
Texts(n) == UNION {[1..m -> {"a", "b"}] : m \in 0..n}

\* The configurations with overlap < chunk_size.
Configs ==
    {cfg \in [chunk_size : 1..MaxChunkSize, overlap : 0..MaxChunkSize] :
        cfg.overlap < cfg.chunk_size}

\* The Chunker given any text and any configuration.
InitChunk ==
    /\ PageLoaded
    /\ input \in {<<[text |-> x, cfg |-> cfg]>> : x \in Texts(MaxText), cfg \in Configs}
    /\ output = NoCall

ChunkNext == chunk

SpecChunk == InitChunk /\ [][ChunkNext]_vars

\* The ingestion of documents, entry by entry, and the queries that arrive
\* meanwhile.
IngestNext ==
    \/ \E d \in Docs : ingest(d)
    \/ \E d \in Docs : IndexWrite(d)
    \/ \E d \in Docs : IngestComplete(d)
    \/ \E d \in Docs : IngestFail(d)
    \/ \E d \in Docs : ask(d)
    \/ \E i \in 1..Len(srvQueries) : retrieve(i)

SpecIngest == InitUpload /\ [][IngestNext]_vars

\* The four handlers of App that write the view and the selection, with the
\* list and the deletions that call them.
ViewNext ==
    \/ \E view \in {"documents", "chat"} : handleViewChange(view)
    \/ handleBackFromChat
    \/ \E r \in listReqs : ServeList(r)
    \/ \E r \in listReqs : loadDocumentsDone(r)
    \/ \E d \in Docs : OpenDeleteDialog(d)
    \/ \E d \in Docs : handleDelete(d)
    \/ \E r \in delReqs : ServeDelete(r)
    \/ \E r \in delReqs : handleDeleteOk(r)
    \/ \E r \in delReqs : handleDeleteFail(r)
    \/ \E document \in documents : handleSelectForChat(document)

SpecView == Init /\ [][ViewNext]_vars

\* ------------------------------------------------------------------ claims
Range(s) == {s[i] : i \in 1..Len(s)}
Remove(s, m) == SelectSeq(s, LAMBDA x : x # m)
Mounted == ChatMounted(currentView, selectedDocument)

\* C1: a chat request is issued only for the selected document, and a document
\* becomes the selected one only if it was processing-complete when chosen.
C1_AskOnlyCompleteDocument ==
    [][/\ \A r \in sendReqs' \ sendReqs :
             r.phase = "sent" =>
                 r.doc = selectedDocument.id /\ selectedDocument.processing_complete
       /\ (selectedDocument' # selectedDocument /\ selectedDocument' # NullDoc)
             => selectedDocument'.processing_complete]_vars

\* C1 witness: a question is in flight for a document chosen from the list.
C1_Witness ==
    /\ currentView = "chat"
    /\ \E r \in sendReqs : r.alive /\ r.phase = "sent" /\ r.doc = selectedDocument.id

\* C2: when a chat request fails, handleSubmit removes the optimistic user
\* message from the list and nothing else, and sets error.
C2_FailedAskRemovesOnlyItsMessage ==
    [][\A r \in sendReqs :
          (r.phase = "fail" /\ r \notin sendReqs' /\ Mounted')
             => messages' = Remove(messages, r.userMessage) /\ error' # NoError]_vars

\* C3: an entry of the list that has an answer stays in the list, whatever
\* response arrives, unless a successful clearHistory empties the list.
C3_AnsweredTurnsStay ==
    [][(Mounted /\ Mounted' /\ ~(\E r \in clearReqs : r.phase = "ok" /\ r \notin clearReqs'))
          => \A m \in Range(messages) : m.answer # NullAnswer => m \in Range(messages')]_vars

\* C4: while no chat request is in flight (loading = false) no entry of the
\* list has a null answer.
C4_NoNullAnswerWhenIdle ==
    (Mounted /\ ~loading) => \A m \in Range(messages) : m.answer # NullAnswer

\* C5: once handleDelete has deleted document d, d is not the selected document.
C5_DeletedDocumentNotSelected ==
    \A d \in Docs :
        (srvDocs[d].st = "Deleted" /\ ~(\E r \in delReqs : r.doc = d /\ r.phase = "ok"))
            => selectedDocument.id # d

\* C6: after a successful reset has emptied the list, no turn that existed
\* before the reset is in the list again.
C6_ResetIsFinal ==
    (Mounted /\ lastReset >= 0) => \A m \in Range(messages) : m.timestamp > lastReset

\* C7: no step of clearHistory (request, backend, continuation) changes the
\* selected document, the view, the loading flag or the stored documents, and
\* every chat request carries the id of the selected document.
C7_ClearHistoryFrame ==
    [][/\ (clearReqs' # clearReqs /\ Mounted')
             => UNCHANGED <<selectedDocument, currentView, loading, srvDocs>>
       /\ \A r \in sendReqs' \ sendReqs :
             r.phase = "sent" => r.doc = selectedDocument.id /\ r.doc = selectedDocument'.id]_vars

\* C7 witness: after a successful reset a question is sent while the request
\* of another question asked before the reset is not in flight any more.
C7_Witness ==
    /\ Mounted /\ lastReset >= 0
    /\ \E r \in sendReqs : r.alive /\ r.phase = "sent" /\ r.userMessage.timestamp > lastReset
                           /\ r.doc = selectedDocument.id

\* The status requests of B for document d that have not been answered yet.
Sent(B, d) ==
    BagCardinality([e \in {x \in DOMAIN B : x.phase = "sent" /\ x.uploadResult.id = d} |-> B[e]])

\* The upload of document d is being polled.
Polling(d) == UpMounted(currentView) /\ PollingOn /\ uploadResult.id = d

\* What the parent is handed when the processing of d is seen complete.
Completion(d) ==
    [id |-> d, processing_complete |-> TRUE, chunk_count |-> ChunksOf(d), failed |-> FALSE]

NotifiedComplete(d) == Completion(d) \in Range(console)

\* C8: neither the processing view of UploadZone nor the status chip of
\* DocumentsList presents a document as still processing when the status or
\* the document record they show reports that its ingestion failed.
C8_FailedNotShownAsProcessing ==
    /\ (UpMounted(currentView) /\ UploadScreen = "processing" /\ processingStatus.failed)
          => ProcessingTitle # "Elaborazione in Corso..."
    /\ \A document \in documents :
          (DocsMounted(currentView) /\ ListScreen = "list" /\ document.failed)
             => StatusChip(document) # "Elaborazione"

C10_CanUploadWhileProcessing ==
    (/\ UpMounted(currentView) /\ PollingOn /\ ~isComplete
     /\ srvDocs[uploadResult.id].st = "Processing")
       => (UploadScreen = "dropzone" \/ ResetEnabled)

\* C11: every chat request leaves the requests in flight, with the view it
\* was sent from not loading any more; the step that handles a settled request
\* ends with loading = false whatever the outcome, and a failed or timed-out
\* request sets the error and takes the optimistic entry back.
C11_ChatTurnSettles ==
    /\ \A t \in 1..MaxQuestions :
          (\E r \in sendReqs : r.userMessage.timestamp = t)
             ~> (~loading /\ ~(\E r \in sendReqs : r.userMessage.timestamp = t))
    /\ [][\A r \in sendReqs :
             (r.phase # "sent" /\ r \notin sendReqs' /\ Mounted')
                => /\ loading' = FALSE
                   /\ r.phase \in {"fail", "timeout"}
                        => error' # NoError /\ messages' = SliceInit(messages)]_vars

\* C11 witness: a request that timed out was handled: the view shows the error
\* of an unanswered request and is not loading.
C11_Witness ==
    /\ Mounted /\ ~loading /\ sendReqs = {}
    /\ error = "Impossibile contattare il server"
    /\ clock > 0

\* C12: an upload request is issued only by the drop of a single accepted
\* PDF; the drop of a rejected file sets an error, issues no upload request,
\* leaves uploading false and calls neither onUploadStart nor
\* onUploadComplete (the log and refreshTrigger stay as they are).
C12_OnlyValidatedFileUploaded ==
    [][/\ (uploadReqs' # uploadReqs /\ BagCardinality(uploadReqs') > BagCardinality(uploadReqs))
          => /\ onDrop("pdf")
             /\ BagCardinality(uploadReqs') = BagCardinality(uploadReqs) + 1
       /\ \A drop \in Rejected :
             onDrop(drop) => /\ uploadError' # NoError
                             /\ uploadReqs' = uploadReqs
                             /\ ~uploading /\ ~uploading'
                             /\ console' = console
                             /\ refreshTrigger' = refreshTrigger]_vars

C12_Witness ==
    /\ uploadError \in Rejected
    /\ ~uploading /\ uploadReqs = EmptyBag
    /\ Cardinality(Started) = 1

\* The caller gave the options object a value for key / gave none.
Given(o, key) == o # Undefined /\ key \in DOMAIN o /\ o[key].t \in {"number", "boolean"}
Missing(o, key) == o = Undefined \/ key \notin DOMAIN o \/ o[key] = Undefined

\* C13: the payload of chatAPI.sendMessage carries the caller's maxChunks and
\* similarityThreshold when the options object has them (0 included), 5 and
\* 0.1 when it has not, and include_sources true when includeSources is not
\* given.
C13_PayloadCarriesOptions ==
    output # NoCall =>
        LET o == input[1].options
            payload == output[1]
        IN  /\ Given(o, "maxChunks") => payload.max_chunks = o.maxChunks
            /\ Given(o, "similarityThreshold") =>
                   payload.similarity_threshold = o.similarityThreshold
            /\ Missing(o, "maxChunks") => payload.max_chunks = Num(5)
            /\ Missing(o, "similarityThreshold") => payload.similarity_threshold = Num(1)
            /\ Missing(o, "includeSources") => payload.include_sources = Bool(TRUE)

C13_Witness ==
    /\ output # NoCall
    /\ input[1].options # Undefined
    /\ DOMAIN input[1].options = {"maxChunks"}
    /\ input[1].options.maxChunks = Num(0)
    /\ output[1].max_chunks = Num(0)
    /\ output[1].similarity_threshold = Num(1)
    /\ output[1].include_sources = Bool(TRUE)

\* C14: search(q, k, t) returns at most k results, none with a score below t.
C14_SearchBounded ==
    \A c \in 1..Len(output) :
        /\ Len(output[c]) <= input[1].k
        /\ \A i \in 1..Len(output[c]) : output[c][i].score >= input[1].t

C14_Witness ==
    /\ output # NoCall
    /\ input[1].k = 1 /\ input[1].t = 1
    /\ input[1].index = <<0, 2, 1>>
    /\ output[1] = <<[chunk_id |-> 1, score |-> 2]>>

\* C15: the list search returns is sorted descending by score, equal scores
\* in ascending chunk_id order, and a second call on the unchanged index
\* returns the same list.
C15_SearchRanked ==
    /\ \A c \in 1..Len(output) :
          \A i, j \in 1..Len(output[c]) :
              i < j => \/ output[c][i].score > output[c][j].score
                       \/ /\ output[c][i].score = output[c][j].score
                          /\ output[c][i].chunk_id < output[c][j].chunk_id
    /\ \A c, e \in 1..Len(output) : output[c] = output[e]

C15_Witness ==
    /\ Len(output) = 2
    /\ input[1].index = <<1, 2, 1>>
    /\ output[2] = <<[chunk_id |-> 1, score |-> 2], [chunk_id |-> 0, score |-> 1],
                     [chunk_id |-> 2, score |-> 1]>>

\* What the chunks add up to when each leaves out the characters it shares
\* with the chunk before it.
RECURSIVE Reassembled(_, _)
Reassembled(chunks, overlap) ==
    IF chunks = <<>> THEN <<>>
    ELSE LET last == chunks[Len(chunks)].text
             fresh == IF Len(chunks) = 1 THEN last
                      ELSE SubSeq(last, overlap + 1, Len(last))
         IN  Reassembled(SubSeq(chunks, 1, Len(chunks) - 1), overlap) \o fresh

\* C16: for every text and every configuration with overlap < chunk_size the
\* chunks carry the ids 0, 1, ..., n-1 in order, and the final chunk is kept
\* when it is shorter than chunk_size: the chunks cover the text to its end.
C16_ChunkIdsContiguous ==
    output # NoCall =>
        LET chunks == output[1]
            text == input[1].text
        IN  /\ \A i \in 1..Len(chunks) : chunks[i].id = i - 1
            /\ \A i \in 1..Len(chunks) : chunks[i].text # <<>>
            /\ Reassembled(chunks, input[1].cfg.overlap) = text

C16_Witness ==
    /\ output # NoCall
    /\ input[1].text = <<"a", "b", "b", "a">>
    /\ input[1].cfg = [chunk_size |-> 3, overlap |-> 1]
    /\ output[1] = <<[id |-> 0, text |-> <<"a", "b", "b">>],
                     [id |-> 1, text |-> <<"b", "a">>]>>

\* C17: whatever the interleaving of the index writes of a document with the
\* queries on it, a query is rejected as not ready or is answered from an
\* index that has as many entries as the document has chunks.
C17_NoPartialIndexObserved ==
    \A i \in 1..Len(srvQueries) :
        /\ srvQueries[i].phase \in {"DocumentNotReady", "retrieving", "answered"}
        /\ srvQueries[i].phase = "retrieving" =>
               srvIndex[srvQueries[i].doc] = ChunksOf(srvQueries[i].doc)
        /\ srvQueries[i].phase = "answered" =>
               srvQueries[i].entries = ChunksOf(srvQueries[i].doc)

C17_Witness ==
    /\ Len(srvQueries) > 1
    /\ srvQueries[1].phase = "DocumentNotReady"
    /\ srvQueries[2].phase = "answered"
    /\ srvQueries[1].doc = srvQueries[2].doc

\* C18: whatever handleViewChange, handleSelectDocument, handleDeleteDocument
\* and handleBackFromChat do, and in whatever order, the chat view is shown
\* only with a selected document; handleViewChange('chat') without one leaves
\* the view on 'documents'.
C18_ChatViewHasDocument ==
    /\ [](currentView = "chat" => selectedDocument # NullDoc)
    /\ [][(selectedDocument = NullDoc /\ handleViewChange("chat"))
             => currentView' = "documents"]_vars

C18_Witness ==
    /\ currentView = "chat" /\ selectedDocument # NullDoc
    /\ \E r \in delReqs : r.phase = "ok" /\ r.doc = selectedDocument.id

\* C19: the continuation of a rejected clearChatHistory leaves the message
\* list as it is and sets the reset error; no step of clearHistory changes
\* the list except the continuation of a request the backend has confirmed,
\* and the backend confirms only with the stored turns deleted.
C19_FailedResetChangesNothing ==
    [][/\ \A r \in clearReqs :
             (r.phase = "fail" /\ r \notin clearReqs' /\ Mounted /\ Mounted')
                => messages' = messages /\ error' = "clear"
       /\ (clearReqs' # clearReqs /\ Mounted /\ Mounted' /\ messages' # messages)
             => \E r \in clearReqs \ clearReqs' : r.phase = "ok" /\ messages' = <<>>
       /\ \A r \in clearReqs' \ clearReqs :
             r.phase = "ok" => srvHistory'[r.doc] = <<>>]_vars

C19_Witness ==
    /\ Mounted /\ error = "clear" /\ clearReqs = {}
    /\ messages # <<>> /\ showDeleteDialog
    /\ srvHistory[selectedDocument.id] # <<>>

\* The chat requests of the mounted ChatInterface that are not settled yet.
InFlight == {r \in sendReqs : r.alive /\ r.phase = "sent"}

\* C20: a chat view has at most one chat request in flight; a request is
\* issued only when the trimmed input is not empty and loading is false, and
\* it carries that trimmed input; when the input is blank or loading is true
\* no step issues a request or stamps a new question.
C20_OneQuestionInFlight ==
    /\ [](Cardinality(InFlight) <= 1)
    /\ [][/\ \A r \in InFlight' \ sendReqs :
                r.phase = "sent" => /\ Trim(inputValue) # "" /\ ~loading
                                    /\ r.userMessage.question = Trim(inputValue)
                                    /\ InFlight = {}
          /\ (Mounted /\ Mounted' /\ (Trim(inputValue) = "" \/ loading))
                => /\ clock' = clock
                   /\ InFlight' \subseteq sendReqs]_vars

C20_Witness ==
    /\ Mounted /\ loading
    /\ Cardinality(InFlight) = 1
    /\ clock = MaxQuestions
    /\ \E r \in InFlight : r.userMessage.question = "q"


\* ---------------------------------------------------------------------------
\* The DocumentsList has no request whose answer is still to be applied.
ListSettled == listReqs = {} /\ refreshReqs = {} /\ delReqs = {}

\* C21: once the updates of loadDocuments, handleDelete and
\* refreshSingleDocument are applied, hasProcessingDocs is true exactly when
\* some entry of documents has processing_complete = false.
C21_ProcessingFlagMatchesList ==
    (DocsMounted(currentView) /\ ListSettled)
        => (hasProcessingDocs <=> \E doc \in documents : ~doc.processing_complete)

\* The getDocuments requests a step issued from the interval callback.
TimerDriven == {r \in listReqs' \ listReqs : ~r.showLoading /\ r.phase = "sent"}

\* C22: the 5-second interval exists exactly while DocumentsList is mounted
\* with autoRefresh on and hasProcessingDocs true, there is never more than
\* one, the ref holds it, and a getDocuments request is issued by the interval
\* only while that holds.
C22_OneTimerWhileProcessing ==
    /\ [](BagCardinality(timers) =
              IF DocsMounted(currentView) /\ autoRefresh /\ hasProcessingDocs THEN 1 ELSE 0)
    /\ []((autoRefreshInterval # NullTimer) <=> (timers # EmptyBag))
    /\ [][TimerDriven # {}
              => DocsMounted(currentView) /\ autoRefresh /\ hasProcessingDocs]_vars

\* The interval was cleared by a reload that found every document complete
\* while a request the interval had issued is still pending.
C22_Witness ==
    /\ DocsMounted(currentView)
    /\ documents # {} /\ ~hasProcessingDocs /\ autoRefresh
    /\ timers = EmptyBag
    /\ \E r \in listReqs : ~r.showLoading

\* C23: once every getDocuments request has settled, documents holds the
\* answer to the query for the current searchTerm: every entry matches it.
C23_ListReflectsSearchTerm ==
    (DocsMounted(currentView) /\ listReqs = {} /\ listError = NoError)
        => \A doc \in documents : Matches(doc.id, searchTerm)

\* C24: a successful handleDelete(d) sets documents to the list as it is when
\* the update is applied, with the entries of d filtered out.
C24_DeleteFiltersLatestList ==
    [][\A r \in delReqs :
          (r.alive /\ handleDeleteOk(r)) => documents' = {doc \in documents : doc.id # r.doc}]_vars

\* C25: when the delete request of a mounted DocumentsList is rejected, the
\* catch and the finally change only error and deleting: documents, the dialog
\* and App's selectedDocument, currentView and refreshTrigger stay as they
\* are, error is set and deleting is null again.
C25_FailedDeleteOnlySetsError ==
    [][\A r \in delReqs :
          (r.alive /\ handleDeleteFail(r))
              => /\ documents' = documents
                 /\ deleteDialog' = deleteDialog
                 /\ UNCHANGED <<selectedDocument, currentView, refreshTrigger>>
                 /\ listError' # NoError
                 /\ deleting' = 0]_vars

\* A delete failed: the error is set, the dialog is still open on the
\* document and the document is still listed.
C25_Witness ==
    /\ listError = "delete" /\ deleting = 0 /\ delReqs = {}
    /\ deleteDialog.open
    /\ \E doc \in documents : doc.id = deleteDialog.documentId

\* The delete requests of the mounted DocumentsList whose continuation has
\* not run yet.
PendingDeletes == {r \in delReqs : r.alive}

Notifications(result) == Cardinality({i \in DOMAIN console : console[i] = result})

\* The result of the upload request for document d.
Uploaded(d) == [id |-> d, processing_complete |-> FALSE, chunk_count |-> 0, failed |-> FALSE]

\* C27: for each uploaded document the parent is notified at most once of
\* the upload and at most once of the completion, and of the completion only
\* after the upload.
C27_NotifiedOncePerEvent ==
    \A d \in Docs :
        /\ Notifications(Uploaded(d)) <= 1
        /\ Notifications(Completion(d)) <= 1
        /\ NotifiedComplete(d) => Notifications(Uploaded(d)) = 1

\* The text of a message given as the pieces that are concatenated is empty.
Empty(message) == \A i \in DOMAIN message : message[i] = ""

\* C28: the Error of a failed call has a message that is never empty: with a
\* response it is the server's detail if that is truthy, else the server's
\* message if that is truthy, else 'Errore del server'; without a response to
\* a request that was sent it is the 'Impossibile contattare il server' text;
\* otherwise it starts with 'Errore nella richiesta: '.  The message for a
\* response is never the one for an unreachable server, and the rejection
\* leaves every state of the application as it is.
C28_RejectionMessage ==
    output # NoCall =>
        /\ ~Empty(output.message)
        /\ IF input.response # NoResponse
           THEN LET detail == DataGet(input.response.data, "detail")
                    message == DataGet(input.response.data, "message")
                IN  /\ output.message =
                          <<IF Truthy(detail) THEN detail.s
                            ELSE IF Truthy(message) THEN message.s
                            ELSE "Errore del server">>
                    /\ output.message # <<Unreachable.s>>
           ELSE IF input.request
           THEN output.message = <<Unreachable.s>>
           ELSE output.message[1] = "Errore nella richiesta: "
        /\ PageLoaded

\* The server answered with an empty detail and no message, and the call was
\* rejected with the default text.
C28_Witness ==
    /\ output # NoCall
    /\ input.response # NoResponse
    /\ DataGet(input.response.data, "detail") = Str("")
    /\ DataGet(input.response.data, "message") = Undefined
    /\ output.message = <<"Errore del server">>

====
